---- MODULE Spec2Model ----
(***************************************************************************)
(* Model of the VHP client-side verification pipeline:                     *)
(*   - SimpleVerificationService (lib/verification/simpleVerificationService.ts) *)
(*   - the four step functions (lib/verification/steps/*.ts)               *)
(*   - the verification review screen (components/challenge/VerificationReview.tsx) *)
(*   - detectHumanInVideo (lib/verification/helpers/tensorflowHumanDetection.ts) *)
(*                                                                         *)
(* Numbers on the 0.0-1.0 scale are kept as integers in units of 1/1000;   *)
(* numbers on the 0-100 scale are kept as they are.  Strings that the code *)
(* inspects (MIME types, step ids) are sequences of pieces, so that        *)
(* startsWith / includes / += are computed and not assumed.                *)
(***************************************************************************)
EXTENDS Integers, Sequences, FiniteSets, TLC

VARIABLES
    steps,              \* SimpleVerificationService.steps (the one array of the instance)
    observer,           \* which onProgressCallback the instance was constructed with
    nodeEnv,            \* process.env.NODE_ENV
    videoBlob,          \* the video blob handed to the service
    photoBlob,          \* the photo blob handed to the service
    calls,              \* the calls of service methods in flight: position and locals
    active,             \* the call that holds the JavaScript thread (0: none, event loop idle)
    results,            \* what each runFullVerification call resolved to
    resolvedSteps,      \* history: the contents of result.steps when the call resolved
    lastUpdate,         \* history: the last updateStep that found its step
    verificationStage,  \* VerificationReviewScreen state
    verificationResult, \* VerificationReviewScreen state
    submitted,          \* the data handed to onComplete, in order
    scanPc,             \* detectHumanInVideo: where the call is
    duration,           \* videoElement.duration
    options,            \* frameInterval, maxFrames, consecutiveThreshold of the call
    timePoints,         \* detectHumanInVideo locals
    nextPoint,          \* position of the for-of loop in timePoints.slice(0, maxFrames)
    framesChecked,
    detectionsCount,
    consecutiveDetections,
    maxConfidence,
    stoppedEarly,
    scanResult,         \* the VideoHumanDetectionResult the call resolved to
    visited,            \* history: the offsets sought, in order, with what each frame gave
    detCall,            \* detectHumanInImage: where the call is, its arguments and locals
    models,             \* the module-level model cache and the loads in flight
    video,              \* seekToTime: the video element, its listeners and the waits
    fnIn,               \* the argument of a function applied on its own
    fnOut               \* what that function returned

svcVars == <<steps, observer, nodeEnv, videoBlob, photoBlob, calls, active, results,
             resolvedSteps, lastUpdate>>
uiVars == <<verificationStage, verificationResult, submitted>>
scanVars == <<scanPc, duration, options, timePoints, nextPoint, framesChecked,
              detectionsCount, consecutiveDetections, maxConfidence, stoppedEarly,
              scanResult, visited>>
detVars == <<detCall, models, video, fnIn, fnOut>>
nonSvcVars == <<uiVars, scanVars, detVars>>
vars == <<svcVars, uiVars, scanVars, detVars>>

-----------------------------------------------------------------------------
(* Bounds *)

MaxCalls == 2

-----------------------------------------------------------------------------
(* Blobs: declared MIME type and byte size *)

VideoWebm == <<"v", "i", "d", "e", "o", "/", "w", "e", "b", "m">>
VideoBare == <<"v", "i", "d", "e", "o">>
ImageJpeg == <<"i", "m", "a", "g", "e", "/", "j", "p", "e", "g">>
TextPlain == <<"t", "e", "x", "t", "/", "p", "l", "a", "i", "n">>
EmptyType == <<>>

VideoPrefix == <<"v", "i", "d", "e", "o", "/">>
ImagePrefix == <<"i", "m", "a", "g", "e", "/">>

\* String.prototype.startsWith
StartsWith(s, p) == Len(s) >= Len(p) /\ SubSeq(s, 1, Len(p)) = p

MinFileSize == 1024
MaxVideoSize == 100 * 1024 * 1024
MaxPhotoSize == 10 * 1024 * 1024

Blob(t, n) == [type |-> t, size |-> n]

\* Mutant of VideoValid: the lower size bound is exclusive
VideoValidExclusive(v) ==
    /\ StartsWith(v.type, VideoPrefix)
    /\ ~(v.size <= MinFileSize)
    /\ ~(v.size > MaxVideoSize)

\* basicFileCheck.ts, video validation: the if / else-if chain ends in videoValid = true
VideoValid(v) ==
    /\ StartsWith(v.type, VideoPrefix)
    /\ ~(v.size < MinFileSize)
    /\ ~(v.size > MaxVideoSize)

\* basicFileCheck.ts, photo validation
PhotoValid(p) ==
    /\ StartsWith(p.type, ImagePrefix)
    /\ ~(p.size < MinFileSize)
    /\ ~(p.size > MaxPhotoSize)

\* runBasicFileCheck, the result returned from the try block
BasicFileCheck(v, p) ==
    LET passed == VideoValid(v) /\ PhotoValid(p)
    IN  [passed |-> passed, confidence |-> IF passed THEN 100 ELSE 0]

-----------------------------------------------------------------------------
(* Step results of steps 2-4 from what the detectors and the judge return *)

\* Mutant of Round100: the percentage is cut, not rounded
Round100Floor(c) == c \div 10

\* Math.round(c * 100) for c >= 0 given in 1/1000
Round100(c) == (c + 5) \div 10

\* Mutant of HumanVideoCheck: one positive frame is not enough
HumanVideoCheckTwoFrames(det) ==
    LET passed == det.hasHuman /\ det.detectionCount > 1
    IN  [passed |-> passed, confidence |-> IF passed THEN Round100(det.confidence) ELSE 0]

\* runHumanVideoCheck: passed and confidence from the VideoHumanDetectionResult
HumanVideoCheck(det) ==
    LET passed == det.hasHuman /\ det.detectionCount >= 1
    IN  [passed |-> passed, confidence |-> IF passed THEN Round100(det.confidence) ELSE 0]

Area(b) == b.width * b.height

\* boundingBoxes.reduce(...): the first box of the largest area
RECURSIVE LargestFace(_)
LargestFace(bs) ==
    IF Len(bs) = 1 THEN bs[1]
    ELSE LET largest == LargestFace(SubSeq(bs, 1, Len(bs) - 1))
             face == bs[Len(bs)]
         IN  IF Area(face) > Area(largest) THEN face ELSE largest

\* Mutant of HumanSelfieCheck: the 2% bound is exclusive
HumanSelfieCheckExclusive(det, img) ==
    LET hasBoxes == "boundingBoxes" \in DOMAIN det /\ Len(det.boundingBoxes) > 0
        faceArea == IF hasBoxes THEN Area(LargestFace(det.boundingBoxes)) ELSE 0
        imageArea == img.width * img.height
        passed == /\ det.hasHuman
                  /\ det.confidence >= 600
                  /\ (faceArea = 0 \/ faceArea * 100 > 2 * imageArea)
    IN  [passed |-> passed, confidence |-> IF passed THEN Round100(det.confidence) ELSE 0]

\* runHumanSelfieCheck: passed and confidence from the HumanDetectionResult and the
\* image size; faceSize = faceArea / imageArea * 100 is compared without dividing
HumanSelfieCheck(det, img) ==
    LET hasBoxes == "boundingBoxes" \in DOMAIN det /\ Len(det.boundingBoxes) > 0
        faceArea == IF hasBoxes THEN Area(LargestFace(det.boundingBoxes)) ELSE 0
        imageArea == img.width * img.height
        passed == /\ det.hasHuman
                  /\ det.confidence >= 600
                  /\ (faceArea = 0 \/ faceArea * 100 >= 2 * imageArea)
    IN  [passed |-> passed, confidence |-> IF passed THEN Round100(det.confidence) ELSE 0]

Max(a, b) == IF a > b THEN a ELSE b
Min(a, b) == IF a < b THEN a ELSE b

\* Mutant of ProcessAIResult: the lenient band 40-59 does not pass
ProcessAIResultStrict(score) ==
    LET passed == score >= 60
    IN  [passed |-> passed,
         confidence |-> IF passed THEN Max(60, score) ELSE Min(40, score),
         challengeCompleted |-> passed,
         score |-> score]

\* processAIResult: passed, challengeCompleted and confidence from the judge score
ProcessAIResult(score) ==
    LET passed == score >= 60 \/ score >= 40
    IN  [passed |-> passed,
         confidence |-> IF passed THEN Max(60, score) ELSE Min(40, score),
         challengeCompleted |-> passed,
         score |-> score]

\* Mutant of CatchResult: the simulated result in every mode but production
CatchResultUnlessProduction(k) ==
    IF k = 4 /\ nodeEnv # "production"
    THEN [passed |-> TRUE, confidence |-> 75, score |-> 75]
    ELSE IF k = 4 THEN [passed |-> FALSE, confidence |-> 0, score |-> 0]
    ELSE [passed |-> FALSE, confidence |-> 0]

\* the result a step function returns from its catch block; runAIChallengeCheck
\* returns a simulated pass when process.env.NODE_ENV === 'development'
CatchResult(k) ==
    IF k = 4 /\ nodeEnv = "development"
    THEN [passed |-> TRUE, confidence |-> 75, score |-> 75]
    ELSE IF k = 4 THEN [passed |-> FALSE, confidence |-> 0, score |-> 0]
    ELSE [passed |-> FALSE, confidence |-> 0]

\* what detectHumanInVideo can return to step 2
VideoDetections ==
    { [hasHuman |-> FALSE, confidence |-> 0, detectionCount |-> 0],
      [hasHuman |-> TRUE, confidence |-> 655, detectionCount |-> 1],
      [hasHuman |-> TRUE, confidence |-> 950, detectionCount |-> 2] }

SelfieImage == [width |-> 100, height |-> 100]

\* what detectHumanInImage can return to step 3 for a 100x100 photo
SelfieDetections ==
    { [hasHuman |-> FALSE, confidence |-> 0, detectionCount |-> 0],
      [hasHuman |-> TRUE, confidence |-> 550, detectionCount |-> 1,
       boundingBoxes |-> << [width |-> 50, height |-> 50] >>],
      [hasHuman |-> TRUE, confidence |-> 900, detectionCount |-> 1,
       boundingBoxes |-> << [width |-> 10, height |-> 19] >>],
      [hasHuman |-> TRUE, confidence |-> 800, detectionCount |-> 2,
       boundingBoxes |-> << [width |-> 10, height |-> 10], [width |-> 10, height |-> 20] >>],
      [hasHuman |-> TRUE, confidence |-> 700, detectionCount |-> 1] }

\* the scores the judge can answer with
JudgeScores == {35, 45, 85}

-----------------------------------------------------------------------------
(* detectHumanInVideo: times are in milliseconds *)

MaxScanFrames == 4
MaxThreshold == 3

\* a duration: a finite number of milliseconds, NaN or Infinity
Seconds(ms) == [kind |-> "finite", ms |-> ms]
NaN == [kind |-> "NaN", ms |-> 0]
Infinity == [kind |-> "Infinity", ms |-> 0]

\* duration && isFinite(duration) && duration > 0
DurationValid(d) == d.kind = "finite" /\ d.ms # 0 /\ d.ms > 0

\* Mutant of BeforeEnd: the offsets go up to the duration
BeforeEndNoMargin(currentTime, d) == currentTime < d

\* currentTime < duration - 0.1
BeforeEnd(currentTime, d) == currentTime < d - 100

\* generateTimePoints: while (currentTime < duration - 0.1 && timePoints.length < maxFrames)
RECURSIVE GenerateFrom(_, _, _, _, _)
GenerateFrom(points, currentTime, d, interval, maxFrames) ==
    IF BeforeEnd(currentTime, d) /\ Len(points) < maxFrames
    THEN GenerateFrom(Append(points, currentTime), currentTime + interval, d, interval,
                      maxFrames)
    ELSE points

GenerateTimePoints(d, interval, maxFrames) == GenerateFrom(<<>>, 0, d, interval, maxFrames)

\* the fallback time points of detectHumanInVideo
FallbackTimePoints == <<0, 500, 1000, 1500, 2000, 2500, 3000>>

\* the fallback time points of extractVideoFrames
ExtractorFallbackTimePoints ==
    <<0, 500, 1000, 1500, 2000, 2500, 3000, 4000, 5000, 6000, 7000, 8000, 10000, 12000,
      15000>>

\* timePoints.slice(0, maxFrames)
Slice(s, n) == SubSeq(s, 1, Min(Len(s), n))

\* what analysing one frame gives: a throw (from the seek, the capture or the
\* classification), or the HumanDetectionResult of detectHumanInImage
FrameThrows == [threw |-> TRUE, hasHuman |-> FALSE, confidence |-> 0]
FrameResult(h, c) == [threw |-> FALSE, hasHuman |-> h, confidence |-> c]
FrameOutcomes ==
    {FrameThrows, FrameResult(FALSE, 0), FrameResult(FALSE, 400), FrameResult(TRUE, 600),
     FrameResult(TRUE, 900)}

NoScanResult == [resolved |-> FALSE]

\* Mutant of EnoughConsecutive: the streak has to exceed the threshold
EnoughConsecutiveStrict(n, threshold) == n > threshold

\* if (consecutiveDetections >= consecutiveThreshold) { stoppedEarly = true; break; }
EnoughConsecutive(n, threshold) == n >= threshold

\* detectHumanInVideo is called; initializeTensorFlow resolves or throws
ScanStart ==
    /\ scanPc = "called"
    /\ \E tfReady \in BOOLEAN :
          IF tfReady
          THEN /\ timePoints' = IF DurationValid(duration)
                                THEN GenerateTimePoints(duration.ms, options.frameInterval,
                                                        options.maxFrames)
                                ELSE FallbackTimePoints
               /\ nextPoint' = 1
               /\ scanPc' = "loop"
               /\ UNCHANGED scanResult
          ELSE /\ scanResult' = [resolved |-> TRUE, hasHuman |-> FALSE, confidence |-> 0,
                                 detectionCount |-> 0, totalFramesChecked |-> 0,
                                 consecutiveDetections |-> 0, stoppedEarly |-> FALSE]
               /\ scanPc' = "done"
               /\ UNCHANGED <<timePoints, nextPoint>>
    /\ UNCHANGED <<duration, options, framesChecked, detectionsCount,
                   consecutiveDetections, maxConfidence, stoppedEarly, visited>>
    /\ UNCHANGED <<svcVars, uiVars, detVars>>

\* Mutant of OnFrameError: the counter survives a frame that threw
OnFrameErrorKept(n) == n

\* catch (frameError) { consecutiveDetections = 0; // Reset on error }
OnFrameError(n) == 0

\* one pass of the loop body: seek, capture, classify, count
ScanFrame ==
    /\ scanPc = "loop"
    /\ nextPoint <= Len(Slice(timePoints, options.maxFrames))
    /\ \E f \in FrameOutcomes :
          /\ visited' = Append(visited, [time |-> Slice(timePoints, options.maxFrames)[nextPoint],
                                         threw |-> f.threw, hasHuman |-> f.hasHuman,
                                         confidence |-> f.confidence])
          /\ nextPoint' = nextPoint + 1
          /\ IF f.threw
             THEN /\ consecutiveDetections' = OnFrameError(consecutiveDetections)
                  /\ UNCHANGED <<framesChecked, detectionsCount, maxConfidence, stoppedEarly,
                                 scanPc>>
             ELSE /\ framesChecked' = framesChecked + 1
                  /\ IF f.hasHuman
                     THEN /\ detectionsCount' = detectionsCount + 1
                          /\ consecutiveDetections' = consecutiveDetections + 1
                          /\ maxConfidence' = Max(maxConfidence, f.confidence)
                          /\ IF EnoughConsecutive(consecutiveDetections + 1,
                                                  options.consecutiveThreshold)
                             THEN stoppedEarly' = TRUE /\ scanPc' = "after"
                             ELSE UNCHANGED <<stoppedEarly, scanPc>>
                     ELSE /\ consecutiveDetections' = 0
                          /\ UNCHANGED <<detectionsCount, maxConfidence, stoppedEarly, scanPc>>
    /\ UNCHANGED <<duration, options, timePoints, scanResult>>
    /\ UNCHANGED <<svcVars, uiVars, detVars>>

\* Mutant of VideoConfidence: the bonus is added without the cap
VideoConfidenceUncapped(hasHuman, maxConf) == IF hasHuman THEN maxConf + 100 ELSE 0

\* const confidence = hasHuman ? Math.min(0.95, maxConfidence + 0.1) : 0
VideoConfidence(hasHuman, maxConf) == IF hasHuman THEN Min(950, maxConf + 100) ELSE 0

\* after the loop: the result object
ScanFinish ==
    /\ \/ scanPc = "after"
       \/ scanPc = "loop" /\ nextPoint > Len(Slice(timePoints, options.maxFrames))
    /\ LET hasHuman == detectionsCount > 0
       IN  scanResult' = [resolved |-> TRUE,
                          hasHuman |-> hasHuman,
                          confidence |-> VideoConfidence(hasHuman, maxConfidence),
                          detectionCount |-> detectionsCount,
                          totalFramesChecked |-> framesChecked,
                          consecutiveDetections |-> consecutiveDetections,
                          stoppedEarly |-> stoppedEarly]
    /\ scanPc' = "done"
    /\ UNCHANGED <<duration, options, timePoints, nextPoint, framesChecked, detectionsCount,
                   consecutiveDetections, maxConfidence, stoppedEarly, visited>>
    /\ UNCHANGED <<svcVars, uiVars, detVars>>

ScanDurations == {NaN, Infinity, Seconds(0), Seconds(150), Seconds(350), Seconds(1000)}

ScanOptions ==
    [frameInterval : {100, 250}, maxFrames : 1..MaxScanFrames,
     consecutiveThreshold : 1..MaxThreshold]

-----------------------------------------------------------------------------
(* detectHumanInImage and its two detectors.  A BlazeFace prediction is its
   optional probability array and the size of the box between its corners; a
   COCO-SSD prediction is its class, score and the size of its bbox. *)

Face(probability, w, h) == [probability |-> probability, width |-> w, height |-> h]
Person(class, score, w, h) == [class |-> class, score |-> score, width |-> w, height |-> h]

\* Math.max(...xs) of a non-empty list
RECURSIVE MaxOf(_)
MaxOf(xs) == IF Len(xs) = 1 THEN xs[1] ELSE Max(xs[Len(xs)], MaxOf(SubSeq(xs, 1, Len(xs) - 1)))

\* xs.map(x => x.confidence)
Confidences(xs) == [i \in 1..Len(xs) |-> xs[i].confidence]

\* face.probability ? face.probability[0] : 0.95
FaceConfidence(face) == IF Len(face.probability) > 0 THEN face.probability[1] ELSE 950

\* the object the map of detectFacesWithBlazeFace builds of a prediction
FaceBox(face) == [width |-> face.width, height |-> face.height, confidence |-> FaceConfidence(face)]

\* the object the map of detectPersonWithCocoSsd builds of a prediction
PersonBox(pred) == [width |-> pred.width, height |-> pred.height, confidence |-> pred.score]

\* detectFacesWithBlazeFace after model.estimateFaces returned predictions
DetectFacesWithBlazeFace(predictions, image, minConfidence, maxFaces) ==
    LET mapped == [i \in 1..Min(Len(predictions), maxFaces) |-> FaceBox(predictions[i])]
        validFaces == SelectSeq(mapped, LAMBDA f : f.confidence >= minConfidence)
        imageArea == image.width * image.height
        validSizedFaces == SelectSeq(validFaces, LAMBDA f : Area(f) * 100 >= imageArea)
    IN  IF Len(predictions) = 0
        THEN [hasHuman |-> FALSE, confidence |-> 0, detectionCount |-> 0,
              details |-> "No faces detected with BlazeFace"]
        ELSE IF Len(validFaces) = 0
        THEN [hasHuman |-> FALSE,
              confidence |-> IF Len(predictions[1].probability) > 0
                             THEN predictions[1].probability[1] ELSE 0,
              detectionCount |-> 0,
              details |-> "faces detected but all below confidence threshold"]
        ELSE [hasHuman |-> Len(validSizedFaces) > 0,
              confidence |-> MaxOf(Confidences(validFaces)),
              detectionCount |-> Len(validSizedFaces),
              details |-> IF Len(validSizedFaces) > 0 THEN "valid face(s) detected"
                          ELSE "Faces detected but too small",
              boundingBoxes |-> validSizedFaces]

\* detectPersonWithCocoSsd after model.detect returned predictions
DetectPersonWithCocoSsd(predictions, image, minConfidence) ==
    LET allPersons == SelectSeq(predictions, LAMBDA q : q.class = "person")
        personDetections == SelectSeq(allPersons, LAMBDA q : q.score >= minConfidence)
        validPersons == [i \in 1..Len(personDetections) |-> PersonBox(personDetections[i])]
        imageArea == image.width * image.height
        reasonablePersons ==
            SelectSeq(validPersons,
                      LAMBDA q : Area(q) * 100 >= 5 * imageArea /\ Area(q) * 10 <= 9 * imageArea)
    IN  IF Len(personDetections) = 0
        THEN [hasHuman |-> FALSE,
              confidence |-> IF Len(allPersons) > 0 THEN allPersons[1].score ELSE 0,
              detectionCount |-> 0,
              details |-> IF Len(allPersons) > 0 THEN "Person detected but confidence too low"
                          ELSE "No person detected with COCO-SSD"]
        ELSE [hasHuman |-> Len(reasonablePersons) > 0,
              confidence |-> MaxOf(Confidences(validPersons)),
              detectionCount |-> Len(reasonablePersons),
              details |-> IF Len(reasonablePersons) > 0 THEN "person(s) detected"
                          ELSE "Person detected but coverage suspicious",
              boundingBoxes |-> reasonablePersons]

\* what a detector call gives: a throw (the model does not load, or the inference
\* throws), or the predictions of the model
Throws == [threw |-> TRUE, predictions |-> <<>>]
Predicts(predictions) == [threw |-> FALSE, predictions |-> predictions]

\* the result of the detector called `name` on the image of the call
DetectorResult(name) ==
    IF name = "blazeface"
    THEN DetectFacesWithBlazeFace(detCall.face.predictions, detCall.image,
                                  detCall.minConfidence, detCall.maxFaces)
    ELSE DetectPersonWithCocoSsd(detCall.person.predictions, detCall.image,
                                 detCall.minConfidence)

DetectorThrows(name) == IF name = "blazeface" THEN detCall.face.threw ELSE detCall.person.threw

\* the order of the detectors: BlazeFace first for selfies, COCO-SSD first for frames
Primary == IF detCall.preferFaceDetection THEN "blazeface" ELSE "cocossd"
Fallback == IF detCall.preferFaceDetection THEN "cocossd" ELSE "blazeface"

\* Mutant of DetectionFailed: the catch block keeps the confidence of the primary result
DetectionFailedStale ==
    [hasHuman |-> FALSE, confidence |-> detCall.result.confidence, detectionCount |-> 0,
     details |-> "Detection failed"]

\* the result of the outer catch block of detectHumanInImage
DetectionFailed ==
    [hasHuman |-> FALSE, confidence |-> 0, detectionCount |-> 0,
     details |-> "Detection failed"]

NoDetection == [hasHuman |-> FALSE, confidence |-> 0, detectionCount |-> 0, details |-> ""]

\* Mutant of ReturnsPrimary: the primary result is returned whenever it is confident
ReturnsPrimaryConfident(r, minConfidence) == r.confidence >= minConfidence

\* if (detectionResult.hasHuman && detectionResult.confidence >= minConfidence) return
ReturnsPrimary(r, minConfidence) == r.hasHuman /\ r.confidence >= minConfidence

detFrame == UNCHANGED <<svcVars, uiVars, scanVars, models, video, fnIn, fnOut>>

\* detectHumanInImage is called: await initializeTensorFlow(), which may throw
DetectStart ==
    /\ detCall.pc = "called"
    /\ \E tfReady \in BOOLEAN :
          detCall' = IF tfReady THEN [detCall EXCEPT !.pc = "primary"]
                 ELSE [detCall EXCEPT !.pc = "done", !.result = DetectionFailed, !.failed = TRUE]
    /\ detFrame

\* the try block around the primary detector
DetectPrimary ==
    /\ detCall.pc = "primary"
    /\ detCall' = IF DetectorThrows(Primary)
              THEN [detCall EXCEPT !.pc = "fallback", !.invoked = Append(@, Primary),
                               !.primaryThrew = TRUE]
              ELSE LET r == DetectorResult(Primary)
                   IN  [detCall EXCEPT !.pc = IF ReturnsPrimary(r, detCall.minConfidence)
                                          THEN "done" ELSE "fallback",
                                   !.invoked = Append(@, Primary),
                                   !.result = r]
    /\ detFrame

\* the fallback detector, outside the inner try: its throw reaches the outer catch
DetectFallback ==
    /\ detCall.pc = "fallback"
    /\ detCall' = IF DetectorThrows(Fallback)
              THEN [detCall EXCEPT !.pc = "done", !.invoked = Append(@, Fallback),
                               !.result = DetectionFailed, !.failed = TRUE]
              ELSE [detCall EXCEPT !.pc = "done", !.invoked = Append(@, Fallback),
                               !.result = DetectorResult(Fallback)]
    /\ detFrame

DetectStep == DetectStart \/ DetectPrimary \/ DetectFallback

\* the image of the call: 200 x 200, so that 1%, 1.99% and 2% of its area are whole
DetectImage == [width |-> 200, height |-> 200]

FacePredictionLists ==
    { <<>>,
      <<Face(<<900>>, 100, 100)>>,
      <<Face(<<900>>, 20, 40)>>,
      <<Face(<<900>>, 4, 199)>>,
      <<Face(<<900>>, 20, 20)>>,
      <<Face(<<900>>, 10, 10)>>,
      <<Face(<<550>>, 100, 100)>>,
      <<Face(<<>>, 100, 100)>>,
      <<Face(<<>>, 0, 0)>>,
      <<Face(<<700>>, 10, 10), Face(<<650>>, 100, 100)>> }

PersonPredictionLists ==
    { <<>>,
      <<Person("person", 800, 100, 100)>>,
      <<Person("dog", 900, 100, 100)>>,
      <<Person("person", 550, 100, 100)>>,
      <<Person("person", 900, 200, 190)>>,
      <<Person("person", 700, 40, 50)>>,
      <<Person("person", 650, 40, 49), Person("person", 600, 100, 50)>>,
      <<Person("person", 800, 100, 30), Person("person", 750, 100, 30),
        Person("person", 700, 100, 30), Person("person", 650, 100, 30)>> }

FaceOutcomes == {Throws} \cup {Predicts(ps) : ps \in FacePredictionLists}
PersonOutcomes == {Throws} \cup {Predicts(ps) : ps \in PersonPredictionLists}

\* the options runHumanSelfieCheck and detectHumanInVideo call detectHumanInImage with
SelfieDetectOptions == [preferFaceDetection |-> TRUE, minConfidence |-> 600, maxFaces |-> 3]
FrameDetectOptions == [preferFaceDetection |-> FALSE, minConfidence |-> 500, maxFaces |-> 5]

\* a call of detectHumanInImage(image, o) on an image the detectors answer to with
\* face and person
DetectCall(o, face, person) ==
    [pc |-> "called", preferFaceDetection |-> o.preferFaceDetection,
     minConfidence |-> o.minConfidence, maxFaces |-> o.maxFaces, image |-> DetectImage,
     face |-> face, person |-> person, invoked |-> <<>>, primaryThrew |-> FALSE,
     failed |-> FALSE, result |-> NoDetection]

NoDetectCall == [DetectCall(SelfieDetectOptions, Throws, Throws) EXCEPT !.pc = "none"]

NoModels == [pc |-> "none"]
NoVideo == [pc |-> "none"]
NoValue == [given |-> FALSE]

\* no detectHumanInImage call, no model load and no function on its own is modelled
InitNoDetect ==
    /\ detCall = NoDetectCall
    /\ models = NoModels
    /\ video = NoVideo
    /\ fnIn = NoValue
    /\ fnOut = NoValue

-----------------------------------------------------------------------------
(* SimpleVerificationService *)

StepIds == <<"basic-check", "human-video-check", "human-selfie-check", "ai-challenge-check">>

\* the steps array of a new instance: no step has a confidence field yet
InitialSteps ==
    [k \in 1..4 |-> [id |-> <<StepIds[k]>>, status |-> "pending", progress |-> 0]]

\* steps.findIndex(s => s.id === stepId), 0 for -1
FindIndex(st, stepId) ==
    IF \E i \in 1..Len(st) : st[i].id = <<stepId>>
    THEN CHOOSE i \in 1..Len(st) :
            st[i].id = <<stepId>> /\ \A j \in 1..(i - 1) : st[j].id # <<stepId>>
    ELSE 0

\* { ...step, ...updates }
Merge(step, updates) ==
    [f \in DOMAIN step \cup DOMAIN updates |->
        IF f \in DOMAIN updates THEN updates[f] ELSE step[f]]

\* id.includes('logged')
IncludesLogged(id) == \E i \in 1..Len(id) : id[i] = "-logged"

\* steps.find(s => s.status === status && !s.id.includes('logged')), 0 for undefined
FindUnlogged(st, status) ==
    IF \E i \in 1..Len(st) : st[i].status = status /\ ~IncludesLogged(st[i].id)
    THEN CHOOSE i \in 1..Len(st) :
            /\ st[i].status = status /\ ~IncludesLogged(st[i].id)
            /\ \A j \in 1..(i - 1) : ~(st[j].status = status /\ ~IncludesLogged(st[j].id))
    ELSE 0

\* the observer of VerificationReviewScreen.startVerification: it marks the first
\* completed and the first failed step it has not logged yet by appending to the id
\* of the step object it was handed
ReviewObserver(st) ==
    LET c == FindUnlogged(st, "completed")
        st1 == IF c # 0 THEN [st EXCEPT ![c].id = @ \o <<"-logged">>] ELSE st
        f == FindUnlogged(st1, "failed")
    IN  IF f # 0 THEN [st1 EXCEPT ![f].id = @ \o <<"-logged">>] ELSE st1

\* "none": no callback; "review": the observer of the review screen; "strict": an
\* observer that throws when it is handed a failed step; "throws": any observer,
\* each of its calls may throw
Observers == {"none", "review", "strict", "throws"}

\* the steps array after updateStep(stepId, updates), the observer's writes included
UpdateStep(st, stepId, updates) ==
    LET i == FindIndex(st, stepId)
    IN  IF i = 0 THEN st
        ELSE LET st1 == [st EXCEPT ![i] = Merge(@, updates)]
             IN  IF observer = "review" THEN ReviewObserver(st1) ELSE st1

\* whether the observer call inside updateStep(stepId, updates) throws; the observer
\* is called only when the step was found
MayThrow(st, stepId, updates) ==
    LET i == FindIndex(st, stepId)
    IN  IF i = 0 THEN {FALSE}
        ELSE CASE observer = "throws" -> {FALSE, TRUE}
               [] observer = "strict" ->
                    {\E j \in 1..Len(st) :
                        IF j = i THEN updates.status = "failed" ELSE st[j].status = "failed"}
               [] OTHER -> {FALSE}

\* history of updateStep: which step, what kind of update, the status it replaced
Noted(st, stepId, kind) ==
    LET i == FindIndex(st, stepId)
    IN  IF i = 0 THEN lastUpdate
        ELSE [step |-> i, kind |-> kind, from |-> st[i].status]

-----------------------------------------------------------------------------
(* The step functions as the service sees them: the progress callbacks in their
   order, the input validation, and the awaits (where the call gives up the thread;
   'fails' says whether what is awaited can reject or be followed by a throw) *)

P(pct) == [op |-> "progress", pct |-> pct]
Validation == [op |-> "validate"]
Await(fails) == [op |-> "await", fails |-> fails]

\* runBasicFileCheck: no await, the validation sets flags and never throws
BasicFileCheckBody == <<P(10), P(50), P(90), P(100)>>
\* runHumanVideoCheck: awaits the video metadata, then detectHumanInVideo
HumanVideoCheckBody ==
    <<P(5), Validation, P(15), Await(TRUE), P(35), Await(FALSE), P(90), P(100)>>
\* runHumanSelfieCheck: awaits the image load, then detectHumanInImage
HumanSelfieCheckBody ==
    <<P(5), Validation, P(15), Await(TRUE), P(30), Await(FALSE), P(85), P(100)>>
\* runAIChallengeCheck: awaits extractVideoFrames, then sendFramesToAI
AIChallengeCheckBody ==
    <<P(5), Validation, P(10), P(15), Await(TRUE), P(55), P(65), Await(TRUE), P(90), P(100)>>

Body(k) ==
    CASE k = 1 -> BasicFileCheckBody
      [] k = 2 -> HumanVideoCheckBody
      [] k = 3 -> HumanSelfieCheckBody
      [] k = 4 -> AIChallengeCheckBody

\* the validation at the head of steps 2-4: a throw when it fails
StepInputValid(k) == IF k = 3 THEN PhotoValid(photoBlob) ELSE VideoValid(videoBlob)

\* what the try block of step k can return; step 3 returns its verdict on the result
\* of its own detectHumanInImage call where that call is modelled
TryResults(k) ==
    CASE k = 1 -> {BasicFileCheck(videoBlob, photoBlob)}
      [] k = 2 -> {HumanVideoCheck(d) : d \in VideoDetections}
      [] k = 3 -> IF detCall.pc = "done"
                  THEN {HumanSelfieCheck(detCall.result, detCall.image)}
                  ELSE {HumanSelfieCheck(d, SelfieImage) : d \in SelfieDetections}
      [] k = 4 -> {ProcessAIResult(s) : s \in JudgeScores}

\* Mutant of Div100: the confidence is stored on the 0-100 scale
Div100Percent(c) == c * 1000

\* result.confidence / 100, in 1/1000
Div100(c) == c * 10

-----------------------------------------------------------------------------
(* Calls *)

CallIds == 1..MaxCalls

NoRes == [passed |-> FALSE, confidence |-> 0]
IdleCall == [ph |-> "idle", k |-> 0, i |-> 0, res |-> NoRes, ok |-> FALSE,
             caught |-> FALSE, full |-> FALSE]
NoResult == [resolved |-> FALSE]
NoUpdate == [step |-> 0, kind |-> "none", from |-> "none"]

\* a call that has given up the thread and waits to be resumed
Suspended(cr) ==
    \/ cr.ph \in {"ret", "fnrejected", "next", "outercatch"}
    \/ cr.ph = "body" /\ Body(cr.k)[cr.i].op = "await"

\* calls are numbered in the order they are made
IsNextCall(c) == calls[c].ph = "idle" /\ \A d \in 1..(c - 1) : calls[d].ph # "idle"

Runnable(c) == active = c \/ (active = 0 /\ Suspended(calls[c]))

Holder(c, cr) == IF Suspended(cr) \/ cr.ph \in {"done", "rejected"} THEN 0 ELSE c

\* the call moves on to cr
Goto(c, cr) ==
    /\ calls' = [calls EXCEPT ![c] = cr]
    /\ active' = Holder(c, cr)

\* after op i of the body: the next op, or the return of the try block's result
AfterOp(c) ==
    LET cr == calls[c]
    IN  IF cr.i < Len(Body(cr.k))
        THEN Goto(c, [cr EXCEPT !.i = cr.i + 1])
        ELSE \E r \in TryResults(cr.k) : Goto(c, [cr EXCEPT !.ph = "ret", !.res = r])

\* Mutant of Escaped: runFullVerification has no try around its step methods
EscapedUncaught(cr) == [cr EXCEPT !.ph = "rejected"]

\* an exception that leaves a service step method: the try of runFullVerification
\* catches it, a direct call of the step method rejects
Escaped(cr) == [cr EXCEPT !.ph = IF cr.full THEN "outercatch" ELSE "rejected"]

RECURSIVE SumConfidence(_, _)
SumConfidence(st, n) ==
    IF n = 0 THEN 0
    ELSE SumConfidence(st, n - 1)
         + (IF st[n].status = "completed" /\ "confidence" \in DOMAIN st[n]
            THEN st[n].confidence ELSE 0)

\* the steps calculateOverallConfidence keeps: completed, with a truthy confidence
CountedSteps(st) ==
    {n \in 1..Len(st) : /\ st[n].status = "completed"
                        /\ "confidence" \in DOMAIN st[n]
                        /\ st[n].confidence # 0}

\* Mutant of CalculateOverallConfidence: the sum is not divided
CalculateOverallConfidenceSum(st) ==
    IF CountedSteps(st) = {} THEN [num |-> 0, den |-> 1]
    ELSE [num |-> SumConfidence(st, Len(st)), den |-> 1]

\* calculateOverallConfidence: total / count as the fraction num / den
CalculateOverallConfidence(st) ==
    IF CountedSteps(st) = {} THEN [num |-> 0, den |-> 1]
    ELSE [num |-> SumConfidence(st, Len(st)), den |-> Cardinality(CountedSteps(st))]

\* Mutant of GetFailedResult: the failed result says passed
GetFailedResultPassed ==
    [resolved |-> TRUE, success |-> FALSE, passed |-> TRUE,
     overallConfidence |-> [num |-> 0, den |-> 1]]

\* getFailedResult; result.steps is this.steps itself, not a copy
GetFailedResult ==
    [resolved |-> TRUE, success |-> FALSE, passed |-> FALSE,
     overallConfidence |-> [num |-> 0, den |-> 1]]

\* the object runFullVerification returns when all checks passed
PassedResult(st) ==
    [resolved |-> TRUE, success |-> TRUE, passed |-> TRUE,
     overallConfidence |-> CalculateOverallConfidence(st)]

\* Mutant of StopsAfter: the pipeline goes on after a failed step
StopsAfterNever(ok) == FALSE

\* runFullVerification: if (!checkPassed) return this.getFailedResult(...)
StopsAfter(ok) == ~ok

Resolve(c, r) ==
    /\ results' = [results EXCEPT ![c] = r]
    /\ resolvedSteps' = [resolvedSteps EXCEPT ![c] = steps]

\* runFullVerification(videoBlob, photoBlob, challengeDescription) is called
\* (from an event handler: no other call holds the thread)
StartFullCall(c) ==
    /\ IsNextCall(c)
    /\ active = 0
    /\ Goto(c, [IdleCall EXCEPT !.ph = "start", !.k = 1, !.full = TRUE])
    /\ UNCHANGED <<steps, observer, nodeEnv, videoBlob, photoBlob, results,
                   resolvedSteps, lastUpdate>>

StartFull(c) == StartFullCall(c) /\ UNCHANGED nonSvcVars

\* a step method (runBasicCheck, runHumanVideoCheck, ...) is called directly
StartSingle(c, k) ==
    /\ IsNextCall(c)
    /\ active = 0
    /\ Goto(c, [IdleCall EXCEPT !.ph = "start", !.k = k])
    /\ UNCHANGED <<steps, observer, nodeEnv, videoBlob, photoBlob, results,
                   resolvedSteps, lastUpdate, nonSvcVars>>

\* the step method's first statement: updateStep(id, { status: 'running', progress: 0 })
Begin(c) ==
    LET cr == calls[c]
    IN  /\ cr.ph = "start"
        /\ Runnable(c)
        /\ steps' = UpdateStep(steps, StepIds[cr.k],
                               [status |-> "running", progress |-> 0])
        /\ lastUpdate' = Noted(steps, StepIds[cr.k], "begin")
        /\ \E thr \in MayThrow(steps, StepIds[cr.k],
                               [status |-> "running", progress |-> 0]) :
              Goto(c, IF thr THEN Escaped(cr)
                      ELSE [cr EXCEPT !.ph = "body", !.i = 1, !.caught = FALSE])
        /\ UNCHANGED <<observer, nodeEnv, videoBlob, photoBlob, results, resolvedSteps,
                       nonSvcVars>>

\* onProgress(pct, message) inside the try block of the step function
Progress(c) ==
    LET cr == calls[c]
    IN  /\ cr.ph = "body"
        /\ Body(cr.k)[cr.i].op = "progress"
        /\ Runnable(c)
        /\ steps' = UpdateStep(steps, StepIds[cr.k],
                               [status |-> "running", progress |-> Body(cr.k)[cr.i].pct])
        /\ lastUpdate' = Noted(steps, StepIds[cr.k], "progress")
        /\ \E thr \in MayThrow(steps, StepIds[cr.k],
                               [status |-> "running", progress |-> Body(cr.k)[cr.i].pct]) :
              IF thr THEN Goto(c, [cr EXCEPT !.ph = "fncatch"]) ELSE AfterOp(c)
        /\ UNCHANGED <<observer, nodeEnv, videoBlob, photoBlob, results, resolvedSteps,
                       nonSvcVars>>

\* the type and size validation of steps 2-4: throws into the step function's catch
Validate(c) ==
    LET cr == calls[c]
    IN  /\ cr.ph = "body"
        /\ Body(cr.k)[cr.i].op = "validate"
        /\ Runnable(c)
        /\ IF StepInputValid(cr.k) THEN AfterOp(c)
           ELSE Goto(c, [cr EXCEPT !.ph = "fncatch"])
        /\ UNCHANGED <<steps, observer, nodeEnv, videoBlob, photoBlob, results,
                       resolvedSteps, lastUpdate, nonSvcVars>>

\* an await inside the step function is over: with its value, or with an exception
Awaited(c) ==
    LET cr == calls[c]
    IN  /\ cr.ph = "body"
        /\ Body(cr.k)[cr.i].op = "await"
        /\ Runnable(c)
        /\ \E failed \in (IF Body(cr.k)[cr.i].fails THEN {FALSE, TRUE} ELSE {FALSE}) :
              IF failed THEN Goto(c, [cr EXCEPT !.ph = "fncatch"]) ELSE AfterOp(c)
        /\ UNCHANGED <<steps, observer, nodeEnv, videoBlob, photoBlob, results,
                       resolvedSteps, lastUpdate, nonSvcVars>>

\* the catch block of the step function: onProgress(100, '... failed due to error'),
\* then the failed (in development mode of step 4: the simulated) result
FnCatch(c) ==
    LET cr == calls[c]
    IN  /\ cr.ph = "fncatch"
        /\ Runnable(c)
        /\ steps' = UpdateStep(steps, StepIds[cr.k],
                               [status |-> "running", progress |-> 100])
        /\ lastUpdate' = Noted(steps, StepIds[cr.k], "progress")
        /\ \E thr \in MayThrow(steps, StepIds[cr.k],
                               [status |-> "running", progress |-> 100]) :
              Goto(c, IF thr THEN [cr EXCEPT !.ph = "fnrejected"]
                      ELSE [cr EXCEPT !.ph = "ret", !.res = CatchResult(cr.k),
                                      !.caught = TRUE])
        /\ UNCHANGED <<observer, nodeEnv, videoBlob, photoBlob, results, resolvedSteps,
                       nonSvcVars>>

\* the step method after its await: updateStep with the result's status and confidence
Finish(c) ==
    LET cr == calls[c]
    IN  /\ cr.ph = "ret"
        /\ Runnable(c)
        /\ steps' = UpdateStep(steps, StepIds[cr.k],
                               [status |-> IF cr.res.passed THEN "completed" ELSE "failed",
                                progress |-> 100,
                                confidence |-> Div100(cr.res.confidence)])
        /\ lastUpdate' = Noted(steps, StepIds[cr.k], "finish")
        /\ \E thr \in MayThrow(steps, StepIds[cr.k],
                               [status |-> IF cr.res.passed THEN "completed" ELSE "failed",
                                progress |-> 100,
                                confidence |-> Div100(cr.res.confidence)]) :
              Goto(c, IF thr THEN [cr EXCEPT !.ph = "svccatch"]
                      ELSE [cr EXCEPT !.ph = "next", !.ok = cr.res.passed])
        /\ UNCHANGED <<observer, nodeEnv, videoBlob, photoBlob, results, resolvedSteps,
                       nonSvcVars>>

\* the catch block of the step method: updateStep(id, { status: 'failed', ... })
SvcCatch(c) ==
    LET cr == calls[c]
    IN  /\ cr.ph \in {"svccatch", "fnrejected"}
        /\ Runnable(c)
        /\ steps' = UpdateStep(steps, StepIds[cr.k],
                               [status |-> "failed", progress |-> 100, confidence |-> 0])
        /\ lastUpdate' = Noted(steps, StepIds[cr.k], "catch")
        /\ \E thr \in MayThrow(steps, StepIds[cr.k],
                               [status |-> "failed", progress |-> 100, confidence |-> 0]) :
              Goto(c, IF thr THEN Escaped(cr)
                      ELSE [cr EXCEPT !.ph = "next", !.ok = FALSE])
        /\ UNCHANGED <<observer, nodeEnv, videoBlob, photoBlob, results, resolvedSteps,
                       nonSvcVars>>

\* runFullVerification after the await of a step method
Continue(c) ==
    LET cr == calls[c]
    IN  /\ cr.ph = "next"
        /\ cr.full
        /\ Runnable(c)
        /\ IF StopsAfter(cr.ok)
           THEN Goto(c, [cr EXCEPT !.ph = "done"]) /\ Resolve(c, GetFailedResult)
           ELSE IF cr.k < 4
           THEN /\ Goto(c, [cr EXCEPT !.ph = "start", !.k = cr.k + 1])
                /\ UNCHANGED <<results, resolvedSteps>>
           ELSE Goto(c, [cr EXCEPT !.ph = "done"]) /\ Resolve(c, PassedResult(steps))
        /\ UNCHANGED <<steps, observer, nodeEnv, videoBlob, photoBlob, lastUpdate, nonSvcVars>>

\* a directly called step method resolves to its boolean
Returned(c) ==
    LET cr == calls[c]
    IN  /\ cr.ph = "next"
        /\ ~cr.full
        /\ Runnable(c)
        /\ Goto(c, [cr EXCEPT !.ph = "done"])
        /\ UNCHANGED <<steps, observer, nodeEnv, videoBlob, photoBlob, results,
                       resolvedSteps, lastUpdate, nonSvcVars>>

\* the catch block of runFullVerification
OuterCatch(c) ==
    LET cr == calls[c]
    IN  /\ cr.ph = "outercatch"
        /\ Runnable(c)
        /\ Goto(c, [cr EXCEPT !.ph = "done"])
        /\ Resolve(c, GetFailedResult)
        /\ UNCHANGED <<steps, observer, nodeEnv, videoBlob, photoBlob, lastUpdate, nonSvcVars>>

RunStep(c) ==
    \/ Begin(c)
    \/ Progress(c)
    \/ Validate(c)
    \/ Awaited(c)
    \/ FnCatch(c)
    \/ Finish(c)
    \/ SvcCatch(c)
    \/ Continue(c)
    \/ OuterCatch(c)

-----------------------------------------------------------------------------
(* One runFullVerification call on a new instance *)

RunVideoBlobs == {Blob(VideoWebm, 500 * 1024), Blob(VideoWebm, 500), Blob(TextPlain, 500 * 1024)}
RunPhotoBlobs == {Blob(ImageJpeg, 50 * 1024), Blob(ImageJpeg, MaxPhotoSize + 1)}

InitService ==
    /\ steps = InitialSteps
    /\ observer \in Observers
    /\ nodeEnv \in {"production", "development"}
    /\ videoBlob \in RunVideoBlobs
    /\ photoBlob \in RunPhotoBlobs
    /\ calls = [c \in CallIds |-> IdleCall]
    /\ active = 0
    /\ results = [c \in CallIds |-> NoResult]
    /\ resolvedSteps = [c \in CallIds |-> <<>>]
    /\ lastUpdate = NoUpdate

InitUi ==
    /\ verificationStage = "ready"
    /\ verificationResult = NoResult
    /\ submitted = <<>>

\* no detectHumanInVideo call is modelled
InitNoScan ==
    /\ scanPc = "none"
    /\ duration = Seconds(0)
    /\ options = [frameInterval |-> 100, maxFrames |-> 50, consecutiveThreshold |-> 2]
    /\ timePoints = <<>>
    /\ nextPoint = 0
    /\ framesChecked = 0
    /\ detectionsCount = 0
    /\ consecutiveDetections = 0
    /\ maxConfidence = 0
    /\ stoppedEarly = FALSE
    /\ scanResult = NoScanResult
    /\ visited = <<>>

InitRun == InitService /\ InitUi /\ InitNoScan /\ InitNoDetect

NextRun == StartFull(1) \/ RunStep(1)

SpecRun == InitRun /\ [][NextRun]_vars

-----------------------------------------------------------------------------
(* A service instance in general: its methods may be called again, also while an
   earlier call is still awaiting *)

Init ==
    /\ InitService
    /\ InitUi
    /\ InitNoScan
    /\ InitNoDetect
    /\ VideoValid(videoBlob)
    /\ PhotoValid(photoBlob)
    /\ nodeEnv = "production"
    /\ observer # "throws"

Next ==
    \E c \in CallIds :
        \/ StartFull(c)
        \/ \E k \in 1..4 : StartSingle(c, k)
        \/ RunStep(c)
        \/ Returned(c)

Spec == Init /\ [][Next]_vars

-----------------------------------------------------------------------------
(* VerificationReviewScreen: the screen constructs a new service with its observer
   for every verification and hands the submission to its parent through onComplete *)

\* startVerification up to its await: the 'Start Verification' button is rendered
\* only in stage 'ready'
ClickStart ==
    /\ verificationStage = "ready"
    /\ verificationStage' = "verifying"
    /\ StartFullCall(1)
    /\ UNCHANGED <<verificationResult, submitted, scanVars, detVars>>

\* startVerification after its await: setVerificationResult(result) and the stage
VerificationResolved ==
    /\ verificationStage = "verifying"
    /\ calls[1].ph \in {"done", "rejected"}
    /\ IF calls[1].ph = "done"
       THEN /\ verificationResult' = results[1]
            /\ verificationStage' = IF results[1].passed THEN "complete" ELSE "failed"
       ELSE /\ verificationStage' = "failed"
            /\ UNCHANGED verificationResult
    /\ UNCHANGED <<svcVars, submitted, scanVars, detVars>>

\* handleSubmit: the onClick of the second action button in every stage but 'ready'
\* ('Submit Challenge', 'Retry Verification'); the button is disabled while verifying.
\* The parent leaves the screen once it has the submission.
ClickSubmit ==
    /\ verificationStage \in {"complete", "failed"}
    /\ submitted' = Append(submitted, verificationResult)
    /\ verificationStage' = "unmounted"
    /\ UNCHANGED <<svcVars, verificationResult, scanVars, detVars>>

\* onBack ('Retake' and the back arrow), disabled while verifying
ClickBack ==
    /\ verificationStage \in {"ready", "complete", "failed"}
    /\ verificationStage' = "unmounted"
    /\ UNCHANGED <<svcVars, verificationResult, submitted, scanVars, detVars>>

InitReview == InitService /\ InitUi /\ InitNoScan /\ InitNoDetect /\ observer = "review"

\* the steps of the screen's runFullVerification call: its observer never throws, so
\* the catch blocks of the step methods and of runFullVerification are not entered
ReviewRunStep ==
    \/ Begin(1)
    \/ Progress(1)
    \/ Validate(1)
    \/ Awaited(1)
    \/ FnCatch(1)
    \/ Finish(1)
    \/ Continue(1)

NextReview ==
    \/ ClickStart
    \/ ReviewRunStep
    \/ VerificationResolved
    \/ ClickSubmit
    \/ ClickBack

SpecReview == InitReview /\ [][NextReview]_vars

-----------------------------------------------------------------------------
(* Properties of one runFullVerification call (SpecRun) *)

Status(k) == steps[k].status

\* C1: the steps run in their order: a step is beyond 'pending' only when the step
\* before it is 'completed', so once a step is 'failed' every later step is 'pending',
\* in every state of the run and in the result it resolves to; and a step starts
\* running only in a state where the step before it is 'completed'.
C1_StepsInOrder ==
    /\ \A k \in 1..3 : Status(k + 1) # "pending" => Status(k) = "completed"
    /\ \A k \in 1..3 : Status(k) = "failed" => \A j \in (k + 1)..4 : Status(j) = "pending"
    /\ results[1].resolved =>
          \A k \in 1..3 : resolvedSteps[1][k].status # "completed" =>
              \A j \in (k + 1)..4 : resolvedSteps[1][j].status = "pending"

\* C1 witness: the run resolved after step 3 failed, with step 4 still pending
C1_Witness ==
    /\ results[1].resolved
    /\ Status(1) = "completed" /\ Status(2) = "completed"
    /\ Status(3) = "failed" /\ Status(4) = "pending"

\* C2: every submission handed to onComplete carries a result with passed == true
C2_SubmitOnlyPassed ==
    \A n \in 1..Len(submitted) : submitted[n].resolved /\ submitted[n].passed

\* C3: the result has passed == true, and success == true, exactly when all four steps
\* ended 'completed'; with a 'failed' step both are false.
C3_PassedIffAllCompleted ==
    results[1].resolved =>
        /\ results[1].passed = (\A k \in 1..4 : resolvedSteps[1][k].status = "completed")
        /\ results[1].success = results[1].passed
        /\ (\E k \in 1..4 : resolvedSteps[1][k].status = "failed") => ~results[1].passed

\* C3 witness: a run that resolved with passed == true
C3_Witness == results[1].resolved /\ results[1].passed /\ Status(4) = "completed"

\* the steps that passed, and the mean of their confidences as a fraction
PassedSteps(st) == {k \in 1..Len(st) : st[k].status = "completed"}

RECURSIVE SumOver(_, _)
SumOver(st, ks) ==
    IF ks = {} THEN 0
    ELSE LET k == CHOOSE x \in ks : TRUE
         IN  st[k].confidence + SumOver(st, ks \ {k})

MeanOfPassed(st) ==
    IF PassedSteps(st) = {} THEN [num |-> 0, den |-> 1]
    ELSE [num |-> SumOver(st, PassedSteps(st)), den |-> Cardinality(PassedSteps(st))]

SameFraction(a, b) == a.num * b.den = b.num * a.den

\* C4 as stated: in every resolved run, passed or failed, overallConfidence is the
\* mean of the confidences of the steps that passed
C4_MeanInEveryRun ==
    results[1].resolved =>
        SameFraction(results[1].overallConfidence, MeanOfPassed(resolvedSteps[1]))

\* C4 amended: a run that passed has the mean of the four step confidences as its
\* overallConfidence; a run that failed has overallConfidence 0, whatever passed.
C4_MeanWhenPassedZeroWhenFailed ==
    results[1].resolved =>
        IF results[1].passed
        THEN /\ PassedSteps(resolvedSteps[1]) = 1..4
             /\ SameFraction(results[1].overallConfidence, MeanOfPassed(resolvedSteps[1]))
        ELSE results[1].overallConfidence.num = 0

\* C4 witness: a passed run whose step confidences differ
C4_Witness ==
    /\ results[1].resolved /\ results[1].passed
    /\ steps[2].confidence # steps[4].confidence

\* C5: a runFullVerification call never rejects: where it ends, it has resolved to a
\* result; also when the observer threw.
C5_NeverRejects ==
    \A c \in CallIds :
        /\ calls[c].ph # "rejected"
        /\ calls[c].ph = "done" => results[c].resolved

\* C5 witness: the observer threw in the first updateStep of a step method, outside
\* the method's try block, and the call resolved
C5_Witness ==
    /\ observer = "throws"
    /\ calls[1].ph = "done" /\ results[1].resolved
    /\ lastUpdate.kind = "begin" /\ lastUpdate.step = 2

Allowed(from, to) ==
    \/ from = to
    \/ from = "pending" /\ to = "running"
    \/ from = "running" /\ to \in {"completed", "failed"}

\* C6: every updateStep moves its step along pending -> running -> (completed | failed)
\* (or leaves the status as it is), and a progress callback finds its step 'running'
C6_StatusMachine ==
    lastUpdate.step # 0 =>
        /\ Allowed(lastUpdate.from, Status(lastUpdate.step))
        /\ lastUpdate.kind = "progress" => lastUpdate.from = "running"

-----------------------------------------------------------------------------
(* Properties of a service instance whose methods are called more than once (Spec) *)

\* C7: once a runFullVerification call has resolved, the steps list of its result
\* (this.steps itself) stays as it was when the call resolved
C7_ResultStepsFrozen ==
    \A c \in CallIds : results[c].resolved => steps = resolvedSteps[c]

\* only runFullVerification has been called on the instance
OnlyFullRuns == \A c \in CallIds : calls[c].ph # "idle" => calls[c].full

\* C8: while only runFullVerification calls were made, one or several, at most one
\* step is 'running', and the statuses in step order are zero or more 'completed',
\* then at most one 'running' or 'failed', then only 'pending'
C8_OneRunningInOrder ==
    OnlyFullRuns =>
        /\ Cardinality({k \in 1..4 : Status(k) = "running"}) <= 1
        /\ \E m \in 0..4 :
              /\ \A k \in 1..m : Status(k) = "completed"
              /\ \A k \in (m + 2)..4 : Status(k) = "pending"
              /\ m < 4 => Status(m + 1) \in {"running", "failed", "pending"}

-----------------------------------------------------------------------------
(* One detectHumanInVideo call (SpecScan) *)

InitNoService ==
    /\ steps = InitialSteps
    /\ observer = "none"
    /\ nodeEnv = "production"
    /\ videoBlob = Blob(VideoWebm, 500 * 1024)
    /\ photoBlob = Blob(ImageJpeg, 50 * 1024)
    /\ calls = [c \in CallIds |-> IdleCall]
    /\ active = 0
    /\ results = [c \in CallIds |-> NoResult]
    /\ resolvedSteps = [c \in CallIds |-> <<>>]
    /\ lastUpdate = NoUpdate

InitScan ==
    /\ InitNoService
    /\ InitUi
    /\ InitNoDetect
    /\ scanPc = "called"
    /\ duration \in ScanDurations
    /\ options \in ScanOptions
    /\ timePoints = <<>>
    /\ nextPoint = 0
    /\ framesChecked = 0
    /\ detectionsCount = 0
    /\ consecutiveDetections = 0
    /\ maxConfidence = 0
    /\ stoppedEarly = FALSE
    /\ scanResult = NoScanResult
    /\ visited = <<>>

NextScan == ScanStart \/ ScanFrame \/ ScanFinish

SpecScan == InitScan /\ [][NextScan]_vars

\* the number of positive frames at the end of the history
RECURSIVE Streak(_)
Streak(v) ==
    IF v = <<>> THEN 0
    ELSE IF v[Len(v)].hasHuman THEN 1 + Streak(SubSeq(v, 1, Len(v) - 1)) ELSE 0

\* C10: the offsets are sought in strictly ascending order; the loop goes on only
\* while the streak of positive frames is below consecutiveThreshold, so no offset is
\* sought after the frame that completed the streak; and the resolved result has
\* stoppedEarly exactly when the scan ended on a streak of consecutiveThreshold frames.
C10_EarlyExit ==
    /\ \A a, b \in 1..Len(visited) : a < b => visited[a].time < visited[b].time
    /\ scanPc = "loop" =>
          /\ Streak(visited) < options.consecutiveThreshold
          /\ consecutiveDetections < options.consecutiveThreshold
    /\ stoppedEarly => scanPc \in {"after", "done"}
    /\ scanResult.resolved =>
          scanResult.stoppedEarly = (Streak(visited) >= options.consecutiveThreshold)
    /\ scanResult.resolved /\ scanResult.stoppedEarly =>
          Streak(visited) = options.consecutiveThreshold

\* C10 witness: with threshold 2, two positive frames in a row after a negative one
\* ended the scan before the last offset
C10_Witness ==
    /\ scanResult.resolved /\ scanResult.stoppedEarly
    /\ options.consecutiveThreshold = 2
    /\ Len(visited) = 3 /\ ~visited[1].hasHuman
    /\ Len(visited) < Len(Slice(timePoints, options.maxFrames))

\* the confidences of the frames of the history that were positive
PositiveConfidences(v) == {v[n].confidence : n \in {m \in 1..Len(v) : v[m].hasHuman}}

BestOf(cs) == CHOOSE c \in cs : \A d \in cs : d <= c

\* C11: the confidence of the resolved result is min(0.95, best positive frame
\* confidence + 0.10) when a frame was positive and 0 otherwise; it lies in [0, 0.95]
\* and is 0 exactly when no frame was positive.
C11_AggregateConfidence ==
    scanResult.resolved =>
        LET cs == PositiveConfidences(visited)
        IN  /\ scanResult.confidence = IF cs # {} THEN Min(950, BestOf(cs) + 100) ELSE 0
            /\ scanResult.confidence >= 0 /\ scanResult.confidence <= 950
            /\ (scanResult.confidence = 0) = (cs = {})
            /\ scanResult.hasHuman = (cs # {})

\* C11 witness: a scan with positive frames of 60% and 90%, whose bonus is capped
C11_Witness ==
    /\ scanResult.resolved /\ scanResult.confidence = 950
    /\ PositiveConfidences(visited) = {600, 900}

-----------------------------------------------------------------------------
(* runBasicFileCheck, called through runBasicCheck of a new instance (SpecBasic) *)

BasicVideoBlobs ==
    {Blob(t, n) : t \in {VideoWebm, VideoPrefix, VideoBare, ImageJpeg, EmptyType},
                  n \in {0, MinFileSize - 1, MinFileSize, 500 * 1024, MaxVideoSize,
                         MaxVideoSize + 1}}

BasicPhotoBlobs ==
    {Blob(t, n) : t \in {ImageJpeg, ImagePrefix, TextPlain},
                  n \in {MinFileSize - 1, MinFileSize, 50 * 1024, MaxPhotoSize,
                         MaxPhotoSize + 1}}

InitBasic ==
    /\ steps = InitialSteps
    /\ observer \in {"none", "review", "throws"}
    /\ nodeEnv = "production"
    /\ videoBlob \in BasicVideoBlobs
    /\ photoBlob \in BasicPhotoBlobs
    /\ calls = [c \in CallIds |-> IdleCall]
    /\ active = 0
    /\ results = [c \in CallIds |-> NoResult]
    /\ resolvedSteps = [c \in CallIds |-> <<>>]
    /\ lastUpdate = NoUpdate
    /\ InitUi
    /\ InitNoScan
    /\ InitNoDetect

NextBasic ==
    \/ StartSingle(1, 1)
    \/ Begin(1)
    \/ Progress(1)
    \/ FnCatch(1)
    \/ Finish(1)
    \/ SvcCatch(1)
    \/ Returned(1)

SpecBasic == InitBasic /\ [][NextBasic]_vars

\* the result runBasicFileCheck resolved to is at hand
BasicReturned == calls[1].ph = "ret" /\ calls[1].k = 1

\* the condition of the claim on the declared types and sizes
BlobsAcceptable ==
    /\ StartsWith(videoBlob.type, <<"v", "i", "d", "e", "o", "/">>)
    /\ 1024 <= videoBlob.size /\ videoBlob.size <= 100 * 1024 * 1024
    /\ StartsWith(photoBlob.type, <<"i", "m", "a", "g", "e", "/">>)
    /\ 1024 <= photoBlob.size /\ photoBlob.size <= 10 * 1024 * 1024

\* C9 as stated: the result depends on the types and sizes only: it passes exactly
\* when both blobs are acceptable, with confidence 100, and has confidence 0 otherwise
C9_FunctionOfBlobsOnly ==
    BasicReturned =>
        /\ calls[1].res.passed = BlobsAcceptable
        /\ calls[1].res.confidence = IF BlobsAcceptable THEN 100 ELSE 0

\* C9 amended: when no progress callback threw, the result passes exactly when both
\* blobs are acceptable; when one threw, the result is a fail; in both cases the
\* confidence is 100 for a pass and 0 for a fail.
C9_FunctionOfBlobsUnlessCallbackThrows ==
    BasicReturned =>
        /\ calls[1].res.passed = (BlobsAcceptable /\ ~calls[1].caught)
        /\ calls[1].res.confidence = IF calls[1].res.passed THEN 100 ELSE 0

\* C9 witness: a pass with both sizes on their lower bound and the bare prefix as type
C9_Witness ==
    /\ BasicReturned /\ calls[1].res.passed /\ calls[1].res.confidence = 100
    /\ videoBlob = Blob(VideoPrefix, MinFileSize)
    /\ photoBlob.size = MinFileSize

-----------------------------------------------------------------------------
(* One detectHumanInImage call, and runHumanSelfieCheck's verdict on its result
   (SpecDetect) *)

\* what runHumanSelfieCheck computes from the result of its detectHumanInImage call
ApplySelfieCheck ==
    /\ detCall.pc = "done"
    /\ detCall.preferFaceDetection
    /\ ~fnOut.given
    /\ fnOut' = [given |-> TRUE, value |-> HumanSelfieCheck(detCall.result, detCall.image)]
    /\ UNCHANGED <<svcVars, uiVars, scanVars, detCall, models, video, fnIn>>

InitDetect ==
    /\ InitNoService
    /\ InitUi
    /\ InitNoScan
    /\ detCall \in {DetectCall(o, f, q) : o \in {SelfieDetectOptions, FrameDetectOptions},
                                          f \in FaceOutcomes, q \in PersonOutcomes}
    /\ models = NoModels
    /\ video = NoVideo
    /\ fnIn = NoValue
    /\ fnOut = NoValue

NextDetect == DetectStart \/ DetectPrimary \/ DetectFallback \/ ApplySelfieCheck

SpecDetect == InitDetect /\ [][NextDetect]_vars

\* the result the primary detector returned, when it did not throw
PrimaryResult == DetectorResult(Primary)

PrimaryReturned == Len(detCall.invoked) >= 1 /\ ~detCall.primaryThrew

\* C12 as stated: the fallback detector is invoked only when the primary threw or
\* returned a confidence below minConfidence; a primary result of confidence >=
\* minConfidence is returned as is, as the only detector invoked
C12_FallbackOnlyBelowMinConfidence ==
    /\ Len(detCall.invoked) = 2 =>
          detCall.primaryThrew \/ PrimaryResult.confidence < detCall.minConfidence
    /\ (detCall.pc = "done" /\ PrimaryReturned
            /\ PrimaryResult.confidence >= detCall.minConfidence) =>
          detCall.invoked = <<Primary>> /\ detCall.result = PrimaryResult

\* C12 amended: the fallback detector is invoked exactly when the primary threw or
\* returned hasHuman = false, whatever the confidence of that result; a primary
\* result with hasHuman = true has confidence >= minConfidence and is returned as
\* is, as the only detector invoked; face-first starts with BlazeFace, body-first
\* with COCO-SSD.
C12_FallbackUnlessPrimaryFoundHuman ==
    /\ Len(detCall.invoked) >= 1 => detCall.invoked[1] = Primary
    /\ Len(detCall.invoked) = 2 =>
          /\ detCall.invoked[2] = Fallback
          /\ detCall.primaryThrew \/ ~PrimaryResult.hasHuman
    /\ (detCall.pc = "done" /\ PrimaryReturned /\ PrimaryResult.hasHuman) =>
          /\ detCall.invoked = <<Primary>>
          /\ detCall.result = PrimaryResult
          /\ PrimaryResult.confidence >= detCall.minConfidence
    /\ (detCall.pc = "done" /\ PrimaryReturned /\ ~PrimaryResult.hasHuman) =>
          Len(detCall.invoked) = 2

\* C12 witness: face-first, the faces are confident but too small, and the person
\* detector was invoked
C12_Witness ==
    /\ detCall.pc = "done" /\ detCall.preferFaceDetection /\ PrimaryReturned
    /\ ~PrimaryResult.hasHuman
    /\ PrimaryResult.confidence >= detCall.minConfidence
    /\ detCall.invoked = <<"blazeface", "cocossd">>

\* C13: the call always ends in a result: when the primary detector threw, the
\* fallback was tried; when the fallback threw, or the backend initialization did,
\* the result is hasHuman = false, confidence 0, detectionCount 0 with the error
\* detail; and only then
C13_NeverThrows ==
    /\ detCall.pc \in {"called", "primary", "fallback", "done"}
    /\ detCall.pc = "done" =>
          /\ detCall.primaryThrew => detCall.invoked = <<Primary, Fallback>>
          /\ detCall.failed =
                (detCall.invoked = <<>> \/
                 (Len(detCall.invoked) = 2 /\ DetectorThrows(Fallback)))
          /\ detCall.failed =>
                /\ ~detCall.result.hasHuman
                /\ detCall.result.confidence = 0
                /\ detCall.result.detectionCount = 0
                /\ detCall.result.details = "Detection failed"
          /\ ~detCall.failed => detCall.result.details # "Detection failed"

\* C13 witness: the primary returned a confident result without a human, then the
\* fallback threw
C13_Witness ==
    /\ detCall.pc = "done" /\ detCall.failed
    /\ PrimaryReturned /\ PrimaryResult.confidence > 0
    /\ Len(detCall.invoked) = 2

\* the areas of the bounding boxes of a detection result
BoxAreas(r) ==
    IF "boundingBoxes" \in DOMAIN r
    THEN {Area(r.boundingBoxes[n]) : n \in 1..Len(r.boundingBoxes)}
    ELSE {}

\* C14: the selfie verdict passes exactly when the detection has hasHuman and
\* confidence >= 0.6 and (there is no bounding box or the largest covers >= 2% of the
\* image, 2% included); its confidence is round(confidence x 100) on a pass, else 0
C14_SelfiePass ==
    fnOut.given =>
        LET r == detCall.result
            imageArea == detCall.image.width * detCall.image.height
            expected == /\ r.hasHuman
                        /\ r.confidence >= 600
                        /\ \/ BoxAreas(r) = {}
                           \/ BestOf(BoxAreas(r)) * 100 >= 2 * imageArea
        IN  /\ fnOut.value.passed = expected
            /\ fnOut.value.confidence = IF expected THEN (r.confidence + 5) \div 10 ELSE 0

\* C14 witness: a pass with the largest box on exactly 2% of the image
C14_Witness ==
    /\ fnOut.given /\ fnOut.value.passed
    /\ BoxAreas(detCall.result) # {}
    /\ BestOf(BoxAreas(detCall.result)) * 100 =
          2 * detCall.image.width * detCall.image.height

-----------------------------------------------------------------------------
(* One runFullVerification call whose selfie step runs detectHumanInImage on what
   the two detectors answer for the photo (SpecSelfieRun) *)

\* the call is at the await of detectHumanInImage in runHumanSelfieCheck
AtSelfieDetection(c) ==
    /\ calls[c].ph = "body"
    /\ calls[c].k = 3
    /\ Body(3)[calls[c].i] = Await(FALSE)

\* runHumanSelfieCheck calls detectHumanInImage(imageElement, {...})
SelfieDetectCalled ==
    /\ AtSelfieDetection(1)
    /\ detCall.pc = "none"
    /\ detCall' = [detCall EXCEPT !.pc = "called"]
    /\ detFrame

InitSelfieRun ==
    /\ InitService
    /\ InitUi
    /\ InitNoScan
    /\ VideoValid(videoBlob)
    /\ PhotoValid(photoBlob)
    /\ nodeEnv = "production"
    /\ observer \in {"none", "throws"}
    /\ detCall \in {[DetectCall(SelfieDetectOptions, f, q) EXCEPT !.pc = "none"] :
                        f \in FaceOutcomes, q \in PersonOutcomes}
    /\ models = NoModels
    /\ video = NoVideo
    /\ fnIn = NoValue
    /\ fnOut = NoValue

NextSelfieRun ==
    \/ StartFull(1)
    \/ ~AtSelfieDetection(1) /\ RunStep(1)
    \/ SelfieDetectCalled
    \/ AtSelfieDetection(1) /\ DetectStep
    \/ AtSelfieDetection(1) /\ detCall.pc = "done" /\ Awaited(1)

SpecSelfieRun == InitSelfieRun /\ [][NextSelfieRun]_vars

\* the face detector ran and found no face in the photo
NoFaceFound == ~detCall.face.threw /\ detCall.face.predictions = <<>>

\* C15: when steps 1 and 2 passed and the face detector finds no face in the photo,
\* the run resolves with step 3 'failed', step 4 'pending' and passed == false,
\* whatever the person detector reports (stated for a service without a progress
\* observer, so that no callback interferes)
C15_NoFaceFailsSelfie ==
    (/\ results[1].resolved
     /\ observer = "none"
     /\ resolvedSteps[1][1].status = "completed"
     /\ resolvedSteps[1][2].status = "completed"
     /\ NoFaceFound) =>
        /\ resolvedSteps[1][3].status = "failed"
        /\ resolvedSteps[1][4].status = "pending"
        /\ ~results[1].passed

-----------------------------------------------------------------------------
(* processAIResult on its own (SpecJudge) *)

\* processAIResult(result, framesAnalyzed) is applied to a judge answer of that score
ApplyProcessAIResult ==
    /\ fnIn.given
    /\ ~fnOut.given
    /\ fnOut' = [given |-> TRUE, value |-> ProcessAIResult(fnIn.value)]
    /\ UNCHANGED <<svcVars, uiVars, scanVars, detCall, models, video, fnIn>>

InitJudge ==
    /\ InitNoService
    /\ InitUi
    /\ InitNoScan
    /\ detCall = NoDetectCall
    /\ models = NoModels
    /\ video = NoVideo
    /\ fnIn \in {[given |-> TRUE, value |-> score] : score \in 0..100}
    /\ fnOut = NoValue

NextJudge == ApplyProcessAIResult

SpecJudge == InitJudge /\ [][NextJudge]_vars

\* C16: for a score s in 0..100, passed == challengeCompleted == (s >= 40) and the
\* confidence is max(60, s) on a pass and min(40, s) on a fail: never below 60 on a
\* pass, never above 40 on a fail; score 35 fails with confidence 35
C16_ScoreDecision ==
    fnOut.given =>
        LET s == fnIn.value
            r == fnOut.value
        IN  /\ r.passed = (s >= 40)
            /\ r.challengeCompleted = (s >= 40)
            /\ r.confidence = IF s >= 40 THEN (IF s > 60 THEN s ELSE 60)
                                         ELSE (IF s < 40 THEN s ELSE 40)
            /\ r.passed => r.confidence >= 60
            /\ ~r.passed => r.confidence <= 40
            /\ s = 35 => ~r.passed /\ r.confidence = 35

\* C16 witness: a score in the lenient band passes with confidence 60
C16_Witness ==
    /\ fnOut.given /\ fnIn.value = 45
    /\ fnOut.value.passed /\ fnOut.value.confidence = 60

-----------------------------------------------------------------------------
(* The four step functions, each called through its step method on a new instance,
   in every execution mode (SpecSteps) *)

StepVideoBlobs ==
    {Blob(VideoWebm, 500 * 1024), Blob(TextPlain, 500 * 1024), Blob(VideoWebm, 500),
     Blob(VideoWebm, MaxVideoSize + 1)}

StepPhotoBlobs ==
    {Blob(ImageJpeg, 50 * 1024), Blob(TextPlain, 50 * 1024), Blob(ImageJpeg, MaxPhotoSize + 1)}

InitSteps ==
    /\ steps = InitialSteps
    /\ observer \in {"none", "throws"}
    /\ nodeEnv \in {"production", "development", "test"}
    /\ videoBlob \in StepVideoBlobs
    /\ photoBlob \in StepPhotoBlobs
    /\ calls = [c \in CallIds |-> IdleCall]
    /\ active = 0
    /\ results = [c \in CallIds |-> NoResult]
    /\ resolvedSteps = [c \in CallIds |-> <<>>]
    /\ lastUpdate = NoUpdate
    /\ InitUi
    /\ InitNoScan
    /\ InitNoDetect

NextSteps ==
    \/ \E k \in 1..4 : StartSingle(1, k)
    \/ Begin(1)
    \/ Progress(1)
    \/ Validate(1)
    \/ Awaited(1)
    \/ FnCatch(1)
    \/ Finish(1)
    \/ SvcCatch(1)
    \/ Returned(1)

SpecSteps == InitSteps /\ [][NextSteps]_vars

\* the step function of the call has returned its result
StepReturned == calls[1].ph = "ret"

\* the position of the await of sendFramesToAI in runAIChallengeCheck: its last await
JudgeAwait ==
    CHOOSE i \in 1..Len(AIChallengeCheckBody) :
        /\ AIChallengeCheckBody[i].op = "await"
        /\ \A j \in (i + 1)..Len(AIChallengeCheckBody) : AIChallengeCheckBody[j].op # "await"

\* runAIChallengeCheck returned from its catch block after the judge call failed
JudgeCallFailed ==
    /\ StepReturned /\ calls[1].k = 4 /\ calls[1].caught
    /\ calls[1].i = JudgeAwait

\* C17: after a failed judge call runAIChallengeCheck returns passed = false,
\* confidence 0, score 0, unless the execution mode is 'development', where it returns
\* the simulated pass of score 75; the simulated pass is returned in no other mode
C17_SimulatedOnlyInDevelopment ==
    /\ JudgeCallFailed =>
          IF nodeEnv = "development"
          THEN calls[1].res.passed /\ calls[1].res.confidence = 75 /\ calls[1].res.score = 75
          ELSE ~calls[1].res.passed /\ calls[1].res.confidence = 0 /\ calls[1].res.score = 0
    /\ (StepReturned /\ calls[1].caught /\ calls[1].res.passed) =>
          calls[1].k = 4 /\ nodeEnv = "development"

\* C17 witness: the judge call failed in the 'test' mode and the step function
\* returned the failure
C17_Witness ==
    /\ JudgeCallFailed /\ nodeEnv = "test"
    /\ ~calls[1].res.passed /\ calls[1].res.score = 0

\* the step function returned after its validation of the MIME prefix and the size
\* found an error
ValidationFailed ==
    /\ StepReturned
    /\ IF calls[1].k = 1
       THEN ~calls[1].caught /\ ~(VideoValid(videoBlob) /\ PhotoValid(photoBlob))
       ELSE calls[1].caught /\ Body(calls[1].k)[calls[1].i] = Validation

\* C18: in every step function and in every execution mode, a validation error makes
\* the step function return passed = false with confidence 0
C18_ValidationErrorFails ==
    ValidationFailed => ~calls[1].res.passed /\ calls[1].res.confidence = 0

-----------------------------------------------------------------------------
(* The all-pass scenario of one runFullVerification call (SpecRun) *)

\* all four step methods returned true, the last on a judge answer of score 85
AllPassedOnScore85 ==
    /\ results[1].resolved
    /\ calls[1].k = 4 /\ calls[1].ok /\ ~calls[1].caught
    /\ lastUpdate.kind = "finish" /\ lastUpdate.step = 4
    /\ "score" \in DOMAIN calls[1].res /\ calls[1].res.score = 85

\* C19 as stated: in the all-pass scenario the result has passed == true, all four
\* steps 'completed', and overallConfidence > 60
C19_AllPassAbove60 ==
    AllPassedOnScore85 =>
        /\ results[1].passed /\ results[1].success
        /\ \A k \in 1..4 : resolvedSteps[1][k].status = "completed"
        /\ results[1].overallConfidence.num > 60 * 1000 * results[1].overallConfidence.den

\* C19 amended: in the all-pass scenario the result has passed == true, all four
\* steps 'completed', and overallConfidence is a fraction above 0.6 and at most 1
C19_AllPassAbove60Percent ==
    AllPassedOnScore85 =>
        /\ results[1].passed /\ results[1].success
        /\ \A k \in 1..4 : resolvedSteps[1][k].status = "completed"
        /\ results[1].overallConfidence.num > 600 * results[1].overallConfidence.den
        /\ results[1].overallConfidence.num <= 1000 * results[1].overallConfidence.den

\* C19 witness: the scenario with valid 500KB video/webm and 50KB image/jpeg blobs
C19_Witness ==
    /\ AllPassedOnScore85
    /\ videoBlob = Blob(VideoWebm, 500 * 1024) /\ photoBlob = Blob(ImageJpeg, 50 * 1024)
    /\ steps[1].confidence = 1000 /\ steps[4].confidence = 850

-----------------------------------------------------------------------------
(* The model cache: loadBlazeFaceModel, loadCocoSsdModel, preloadModels,
   cleanupTensorFlow (SpecModels) *)

MaxLoaders == 2
MaxCleanups == 1

ModelNames == {"blazeFaceModel", "cocoSsdModel"}

\* the callers of the two load functions: 0 is preloadModels, the others are the
\* detector functions of concurrent detection requests
Preloader == 0
Loaders == 1..MaxLoaders
LoadCalls == (Loaders \cup {Preloader}) \X ModelNames

\* let blazeFaceModel = null; let cocoSsdModel = null; let modelsLoaded = false;
\* started counts the load() calls of a model since process start or the last cleanup
InitModels ==
    \E disposable \in [ModelNames -> BOOLEAN] :
        models = [pc |-> "idle",
                  cache |-> [m \in ModelNames |-> "null"],
                  modelsLoaded |-> FALSE,
                  disposable |-> disposable,
                  loads |-> [lc \in LoadCalls |-> "idle"],
                  started |-> [m \in ModelNames |-> 0],
                  cleanups |-> 0]

modelsFrame == UNCHANGED <<svcVars, uiVars, scanVars, detCall, video, fnIn, fnOut>>

\* the synchronous part of a load function: if (model) return model; otherwise the
\* function suspends at await import(...); "over" is a call that returned or threw
Called(md, lc) ==
    [md EXCEPT !.loads[lc] = IF md.cache[lc[2]] # "null" THEN "over" ELSE "import"]

\* detectFacesWithBlazeFace / detectPersonWithCocoSsd: const model = await load...()
LoadModel(c, m) ==
    /\ models.loads[<<c, m>>] = "idle"
    /\ models' = Called(models, <<c, m>>)
    /\ modelsFrame

\* the dynamic import is over: the function calls load(), or throws
Imported(c, m) ==
    /\ models.loads[<<c, m>>] = "import"
    /\ \E failed \in BOOLEAN :
          models' = IF failed
                    THEN [models EXCEPT !.loads[<<c, m>>] = "over"]
                    ELSE [models EXCEPT !.loads[<<c, m>>] = "load",
                                        !.started[m] = @ + 1]
    /\ modelsFrame

\* load() is over: the handle goes into the cache and to the caller, or the
\* function throws
Loaded(c, m) ==
    /\ models.loads[<<c, m>>] = "load"
    /\ \E failed \in BOOLEAN :
          models' = IF failed
                    THEN [models EXCEPT !.loads[<<c, m>>] = "over"]
                    ELSE [models EXCEPT !.cache[m] = "handle",
                                        !.loads[<<c, m>>] = "over"]
    /\ modelsFrame

\* preloadModels up to its first await: if (modelsLoaded) return
PreloadModels ==
    /\ models.pc = "idle"
    /\ models' = [models EXCEPT !.pc = IF models.modelsLoaded THEN "done" ELSE "init"]
    /\ modelsFrame

\* await initializeTensorFlow() is over: both load functions are called, one after
\* the other, before the await of Promise.all; a failure goes to the catch block
PreloadInitialized ==
    /\ models.pc = "init"
    /\ \E failed \in BOOLEAN :
          models' = IF failed
                    THEN [models EXCEPT !.pc = "done"]
                    ELSE [Called(Called(models, <<Preloader, "blazeFaceModel">>),
                                 <<Preloader, "cocoSsdModel">>) EXCEPT !.pc = "all"]
    /\ modelsFrame

\* Promise.all is over, a failed load having been caught: modelsLoaded = true
PreloadFinished ==
    /\ models.pc = "all"
    /\ \A m \in ModelNames : models.loads[<<Preloader, m>>] = "over"
    /\ models' = [models EXCEPT !.pc = "done", !.modelsLoaded = TRUE]
    /\ modelsFrame

\* cleanupTensorFlow: a model that has dispose is disposed of and set to null
CleanupTensorFlow ==
    /\ models.cleanups < MaxCleanups
    /\ models' = [models EXCEPT
                     !.cache = [m \in ModelNames |->
                                   IF models.cache[m] # "null" /\ models.disposable[m]
                                   THEN "null" ELSE models.cache[m]],
                     !.modelsLoaded = FALSE,
                     !.started = [m \in ModelNames |-> 0],
                     !.cleanups = @ + 1]
    /\ modelsFrame

InitModelCache ==
    /\ InitNoService
    /\ InitUi
    /\ InitNoScan
    /\ detCall = NoDetectCall
    /\ InitModels
    /\ video = NoVideo
    /\ fnIn = NoValue
    /\ fnOut = NoValue

NextModels ==
    \/ \E c \in Loaders, m \in ModelNames : LoadModel(c, m)
    \/ \E c \in Loaders \cup {Preloader}, m \in ModelNames : Imported(c, m)
    \/ \E c \in Loaders \cup {Preloader}, m \in ModelNames : Loaded(c, m)
    \/ PreloadModels
    \/ PreloadInitialized
    \/ PreloadFinished
    \/ CleanupTensorFlow

SpecModels == InitModelCache /\ [][NextModels]_vars

\* C20: between process start and a cleanup call, and between two cleanup calls, at
\* most one load of each model is started, also when its callers overlap
C20_LoadedAtMostOnce == \A m \in ModelNames : models.started[m] <= 1

-----------------------------------------------------------------------------
(* The counters of a detectHumanInVideo scan (SpecScan) *)

\* the offsets the loop iterates over: timePoints.slice(0, maxFrames)
ScanOffsets == Slice(timePoints, options.maxFrames)

\* C21: the consecutive counter is the number of positive frames at the end of the
\* visited offsets (a frame that threw counts as negative); only a positive frame
\* ends the loop before the last offset, so after a frame that threw the scan goes on
\* with the next offset
C21_ConsecutiveCounter ==
    /\ consecutiveDetections = Streak(visited)
    /\ scanPc = "loop" => nextPoint = Len(visited) + 1
    /\ scanPc = "after" => visited[Len(visited)].hasHuman
    /\ scanPc = "done" /\ ~scanResult.stoppedEarly => Len(visited) = Len(ScanOffsets)

\* C21 witness: a positive frame, a frame that threw, a positive frame: the counter
\* is 1 again and the scan is still in its loop
C21_Witness ==
    /\ scanPc = "loop"
    /\ Len(visited) = 3
    /\ visited[1].hasHuman /\ visited[2].threw /\ visited[3].hasHuman
    /\ consecutiveDetections = 1

\* the length of the longest run of positive frames in the history
RECURSIVE LongestRun(_)
LongestRun(v) ==
    IF v = <<>> THEN 0 ELSE Max(Streak(v), LongestRun(SubSeq(v, 1, Len(v) - 1)))

\* C22: the consecutiveDetections of the resolved result is the length of the longest
\* run of consecutive positive frames of the scan
C22_LongestRun ==
    scanResult.resolved => scanResult.consecutiveDetections = LongestRun(visited)

\* C29: in the resolved result 0 <= consecutiveDetections <= detectionCount <=
\* totalFramesChecked <= min(number of offsets, maxFrames), hasHuman holds exactly when
\* detectionCount >= 1, stoppedEarly implies consecutiveDetections >=
\* consecutiveThreshold, and runHumanVideoCheck passes on a result with stoppedEarly
C29_ResultCounters ==
    scanResult.resolved =>
        /\ 0 <= scanResult.consecutiveDetections
        /\ scanResult.consecutiveDetections <= scanResult.detectionCount
        /\ scanResult.detectionCount <= scanResult.totalFramesChecked
        /\ scanResult.totalFramesChecked <= Min(Len(timePoints), options.maxFrames)
        /\ scanResult.hasHuman = (scanResult.detectionCount >= 1)
        /\ scanResult.stoppedEarly =>
              /\ scanResult.consecutiveDetections >= options.consecutiveThreshold
              /\ HumanVideoCheck(scanResult).passed

\* C29 witness: a scan that stopped early on its only positive frame, after a frame
\* that threw and a negative frame, with offsets left over
C29_Witness ==
    /\ scanResult.resolved /\ scanResult.stoppedEarly
    /\ options.consecutiveThreshold = 1
    /\ Len(visited) = 3 /\ visited[1].threw /\ ~visited[2].threw
    /\ scanResult.detectionCount = 1 /\ scanResult.totalFramesChecked = 2
    /\ Len(visited) < Len(ScanOffsets)

-----------------------------------------------------------------------------
(* The results of the two detectors and of detectHumanInImage (SpecDetect) *)

\* the detectors of the call that returned a result
DetectorsReturned == {detCall.invoked[n] : n \in 1..Len(detCall.invoked)} \ 
                     {name \in {"blazeface", "cocossd"} : DetectorThrows(name)}

\* the candidates a detector result kept: those that passed both of its filters
Kept(r) == IF "boundingBoxes" \in DOMAIN r THEN r.boundingBoxes ELSE <<>>

\* C23: in the result of a detector with at least one kept candidate, confidence is
\* the maximum confidence among the kept candidates and detectionCount is their number
C23_BestOfKept ==
    \A name \in DetectorsReturned :
        LET r == DetectorResult(name)
        IN  Len(Kept(r)) > 0 =>
                /\ r.confidence = MaxOf(Confidences(Kept(r)))
                /\ r.detectionCount = Len(Kept(r))

\* C24: every result detectHumanInImage returns has a confidence in [0,1] and at most
\* maxFaces bounding boxes
C24_ConfidenceAndBoxBounds ==
    detCall.pc = "done" =>
        /\ detCall.result.confidence >= 0 /\ detCall.result.confidence <= 1000
        /\ Len(Kept(detCall.result)) <= detCall.maxFaces

-----------------------------------------------------------------------------
(* The frame count reduction of the judge route (SpecReduce).  A frame is its
   index in the request. *)

MaxFrameCount == 60

\* the frames of a request of n frames
Frames(n) == [i \in 1..n |-> i - 1]

\* if (frames.length > 25) { step = Math.floor(frames.length / 20);
\*   frames.filter((_, index) => index % step === 0).slice(0, 20) }
ReduceFrames(frames) ==
    IF Len(frames) > 25
    THEN LET step == Len(frames) \div 20
             positions == [i \in 1..Len(frames) |-> i]
             filtered == SelectSeq(positions, LAMBDA i : (i - 1) % step = 0)
             reducedFrames == SubSeq(filtered, 1, Min(Len(filtered), 20))
         IN  [j \in 1..Len(reducedFrames) |-> frames[reducedFrames[j]]]
    ELSE frames

\* the route reduces the frames of the request
ApplyReduceFrames ==
    /\ fnIn.given
    /\ ~fnOut.given
    /\ fnOut' = [given |-> TRUE, value |-> ReduceFrames(fnIn.value)]
    /\ UNCHANGED <<svcVars, uiVars, scanVars, detCall, models, video, fnIn>>

InitReduce ==
    /\ InitNoService
    /\ InitUi
    /\ InitNoScan
    /\ detCall = NoDetectCall
    /\ models = NoModels
    /\ video = NoVideo
    /\ fnIn \in {[given |-> TRUE, value |-> Frames(n)] : n \in 1..MaxFrameCount}
    /\ fnOut = NoValue

NextReduce == ApplyReduceFrames

SpecReduce == InitReduce /\ [][NextReduce]_vars

\* C25: a request of more than 25 frames is reduced to at most 20 frames in their
\* original order, every one at a multiple of N = floor(count/20), spread over the
\* whole request (no frame at a multiple of N is left out after the last one
\* kept); a request of 25 frames or fewer keeps all its frames in order
C25_EvenlySpacedReduction ==
    fnOut.given =>
        LET frames == fnIn.value
            kept == fnOut.value
            N == Len(frames) \div 20
        IN  IF Len(frames) > 25
            THEN /\ Len(kept) <= 20
                 /\ \A a, b \in 1..Len(kept) : a < b => kept[a] < kept[b]
                 /\ \A a \in 1..Len(kept) : kept[a] % N = 0
                 /\ kept[Len(kept)] + N > Len(frames) - 1
            ELSE kept = frames

-----------------------------------------------------------------------------
(* extractFramesAtTimePoints (SpecExtract).  A frame is the position of its time
   point; fnIn holds what each time point gives, fnOut the loop's i and frames. *)

MaxOffsets == 3

\* what a time point gives: a throw (of the seek, the draw or toDataURL), or a frame
\* of that brightness
CaptureOutcomes ==
    {[threw |-> TRUE, brightness |-> 0], [threw |-> FALSE, brightness |-> 5],
     [threw |-> FALSE, brightness |-> 12], [threw |-> FALSE, brightness |-> 20]}

\* Mutant of KeepsFrame: a dark frame is skipped also when it is the first
KeepsFrameBright(brightness, framesLength) == ~(brightness < 10)

\* if (brightness < 15 && frames.length === 0) { keep } else if (brightness < 10)
\* { continue }
KeepsFrame(brightness, framesLength) ==
    IF brightness < 15 /\ framesLength = 0 THEN TRUE ELSE ~(brightness < 10)

\* one pass of the for loop
ExtractFrame ==
    /\ ~fnOut.given
    /\ fnOut.i < Len(fnIn.value)
    /\ LET o == fnIn.value[fnOut.i + 1]
       IN  fnOut' = [fnOut EXCEPT
                        !.i = @ + 1,
                        !.frames = IF ~o.threw /\ KeepsFrame(o.brightness, Len(fnOut.frames))
                                   THEN Append(@, fnOut.i + 1) ELSE @]
    /\ UNCHANGED <<svcVars, uiVars, scanVars, detCall, models, video, fnIn>>

\* return frames
ExtractReturn ==
    /\ ~fnOut.given
    /\ fnOut.i = Len(fnIn.value)
    /\ fnOut' = [fnOut EXCEPT !.given = TRUE]
    /\ UNCHANGED <<svcVars, uiVars, scanVars, detCall, models, video, fnIn>>

InitExtract ==
    /\ InitNoService
    /\ InitUi
    /\ InitNoScan
    /\ detCall = NoDetectCall
    /\ models = NoModels
    /\ video = NoVideo
    /\ \E n \in 0..MaxOffsets :
          fnIn \in {[given |-> TRUE, value |-> os] : os \in [1..n -> CaptureOutcomes]}
    /\ fnOut = [given |-> FALSE, i |-> 0, frames |-> <<>>]

NextExtract == ExtractFrame \/ ExtractReturn

SpecExtract == InitExtract /\ [][NextExtract]_vars

\* the positions captured without an exception
Captured(os) == {p \in 1..Len(os) : ~os[p].threw}

\* C26: the returned frames are in the order of the offsets; none is of an offset
\* that threw; of the offsets captured without an exception, the first is kept
\* whatever its brightness and a later one exactly when its brightness is at least
\* 10; so the output is non-empty whenever an offset was captured
C26_FramesKept ==
    fnOut.given =>
        LET os == fnIn.value
            frames == fnOut.frames
            kept == {frames[a] : a \in 1..Len(frames)}
        IN  /\ \A a, b \in 1..Len(frames) : a < b => frames[a] < frames[b]
            /\ kept \subseteq Captured(os)
            /\ \A p \in Captured(os) :
                  (p \in kept) = \/ os[p].brightness >= 10
                                 \/ \A q \in Captured(os) : p <= q
            /\ Captured(os) # {} => frames # <<>>

\* C26 witness: the first offset threw, the two others are dark: the second is kept
\* as the first frame, the third is skipped
C26_Witness ==
    /\ fnOut.given
    /\ Len(fnIn.value) = 3
    /\ fnIn.value[1].threw
    /\ ~fnIn.value[2].threw /\ fnIn.value[2].brightness < 10
    /\ ~fnIn.value[3].threw /\ fnIn.value[3].brightness < 10
    /\ fnOut.frames = <<2>>

-----------------------------------------------------------------------------
(* The time points of detectHumanInVideo and extractVideoFrames (SpecTimePoints).
   Times are whole milliseconds; the durations and intervals below are such that
   binary floating point decides every comparison of the loop as exact arithmetic
   does. *)

\* the offsets the loop of a caller iterates over
TimePointsOf(in) ==
    Slice(IF DurationValid(in.duration)
          THEN GenerateTimePoints(in.duration.ms, in.interval, in.maxFrames)
          ELSE IF in.caller = "detectHumanInVideo" THEN FallbackTimePoints
               ELSE ExtractorFallbackTimePoints,
          in.maxFrames)

TimePointDurations ==
    {NaN, Infinity, Seconds(0), Seconds(50), Seconds(100), Seconds(150), Seconds(350),
     Seconds(1050), Seconds(2050)}

\* frameInterval 0.1 s (the default) or 0.25 s; 1 / framesPerSecond for 4 (the
\* default) or 2 frames per second
TimePointInputs ==
    [caller : {"detectHumanInVideo"}, duration : TimePointDurations,
     interval : {100, 250}, maxFrames : {1, 3, 8, 20}]
    \cup
    [caller : {"extractVideoFrames"}, duration : TimePointDurations,
     interval : {250, 500}, maxFrames : {1, 3, 8, 20}]

ApplyTimePoints ==
    /\ fnIn.given
    /\ ~fnOut.given
    /\ fnOut' = [given |-> TRUE, value |-> TimePointsOf(fnIn.value)]
    /\ UNCHANGED <<svcVars, uiVars, scanVars, detCall, models, video, fnIn>>

InitTimePoints ==
    /\ InitNoService
    /\ InitUi
    /\ InitNoScan
    /\ detCall = NoDetectCall
    /\ models = NoModels
    /\ video = NoVideo
    /\ fnIn \in {[given |-> TRUE, value |-> in] : in \in TimePointInputs}
    /\ fnOut = NoValue

NextTimePoints == ApplyTimePoints

SpecTimePoints == InitTimePoints /\ [][NextTimePoints]_vars

\* ceil(a / b) for a >= 0, b > 0
Ceil(a, b) == (a + b - 1) \div b

\* the offsets are count ascending multiples of the interval from 0, below D - 0.1 s
SpacedBelowMargin(points, in, count) ==
    /\ Len(points) = count
    /\ \A k \in 1..Len(points) :
          points[k] = (k - 1) * in.interval /\ points[k] < in.duration.ms - 100

\* the fallback list of the caller, 7 or 15 offsets, cut to maxFrames
FallbackUsed(points, in) ==
    LET fallback == IF in.caller = "detectHumanInVideo"
                    THEN <<0, 500, 1000, 1500, 2000, 2500, 3000>>
                    ELSE <<0, 500, 1000, 1500, 2000, 2500, 3000, 4000, 5000, 6000, 7000,
                           8000, 10000, 12000, 15000>>
    IN  points = SubSeq(fallback, 1, Min(Len(fallback), in.maxFrames))

\* C27 as stated: for a finite D > 0 the offsets are min(ceil(D/I), maxFrames)
\* ascending multiples of I from 0, all below D - 0.1 s; otherwise the fallback list
\* of the caller, cut to maxFrames
C27_CeilOfDuration ==
    fnOut.given =>
        LET in == fnIn.value
        IN  IF in.duration.kind = "finite" /\ in.duration.ms > 0
            THEN SpacedBelowMargin(fnOut.value, in,
                                   Min(Ceil(in.duration.ms, in.interval), in.maxFrames))
            ELSE FallbackUsed(fnOut.value, in)

\* C27 amended: for a finite D > 0 the offsets are min(ceil((D - 0.1)/I), maxFrames)
\* ascending multiples of I from 0 (none for D <= 0.1 s), all below D - 0.1 s;
\* otherwise the fallback list of the caller, cut to maxFrames
C27_CeilOfDurationLessMargin ==
    fnOut.given =>
        LET in == fnIn.value
        IN  IF in.duration.kind = "finite" /\ in.duration.ms > 0
            THEN SpacedBelowMargin(fnOut.value, in,
                                   Min(IF in.duration.ms > 100
                                       THEN Ceil(in.duration.ms - 100, in.interval) ELSE 0,
                                       in.maxFrames))
            ELSE FallbackUsed(fnOut.value, in)

\* C27 witness: 0.35 s at 0.1 s gives 0, 0.1, 0.2 where ceil(D/I) is 4
C27_Witness ==
    /\ fnOut.given
    /\ fnIn.value.duration = Seconds(350) /\ fnIn.value.interval = 100
    /\ fnIn.value.maxFrames = 8
    /\ fnOut.value = <<0, 100, 200>>

-----------------------------------------------------------------------------
(* From a detection confidence to the stored step confidence (SpecRoundTrip) *)

\* the confidences of a detection: 0, 0.001, 0.002, ... 1; the aggregator's end at 0.95
DetectionConfidences == 0..1000

RoundTripInputs ==
    {[step |-> 2, det |-> [hasHuman |-> h, confidence |-> c,
                          detectionCount |-> IF h THEN 1 ELSE 0]] :
        h \in BOOLEAN, c \in {d \in DetectionConfidences : d <= 950}}
    \cup
    {[step |-> 3, det |-> [hasHuman |-> h, confidence |-> c, detectionCount |-> 0]] :
        h \in BOOLEAN, c \in DetectionConfidences}

\* the result of the step function for the detection
StepResultOf(in) ==
    IF in.step = 2 THEN HumanVideoCheck(in.det) ELSE HumanSelfieCheck(in.det, SelfieImage)

\* the step function reports, the service stores confidence: result.confidence / 100
ApplyStoreConfidence ==
    /\ fnIn.given
    /\ ~fnOut.given
    /\ fnOut' = [given |-> TRUE, passed |-> StepResultOf(fnIn.value).passed,
                 value |-> Div100(StepResultOf(fnIn.value).confidence)]
    /\ UNCHANGED <<svcVars, uiVars, scanVars, detCall, models, video, fnIn>>

InitRoundTrip ==
    /\ InitNoService
    /\ InitUi
    /\ InitNoScan
    /\ detCall = NoDetectCall
    /\ models = NoModels
    /\ video = NoVideo
    /\ fnIn \in {[given |-> TRUE, value |-> in] : in \in RoundTripInputs}
    /\ fnOut = NoValue

NextRoundTrip == ApplyStoreConfidence

SpecRoundTrip == InitRoundTrip /\ [][NextRoundTrip]_vars

\* C28 as stated: the stored step confidence is the confidence c of the detection
C28_RoundTrip == fnOut.given => fnOut.value = fnIn.value.det.confidence

\* C28 amended: when the step passed, the stored confidence is a whole number of
\* hundredths within 0.005 of c; when it failed, the stored confidence is 0
C28_RoundTripWithinHalfPercent ==
    fnOut.given =>
        LET c == fnIn.value.det.confidence
        IN  IF fnOut.passed
            THEN /\ fnOut.value % 10 = 0
                 /\ fnOut.value - c <= 5 /\ c - fnOut.value <= 5
            ELSE fnOut.value = 0

\* C28 witness: a video detection of confidence 0.655 is stored as 0.66
C28_Witness ==
    /\ fnOut.given /\ fnOut.passed
    /\ fnIn.value.step = 2 /\ fnIn.value.det.confidence = 655
    /\ fnOut.value = 660

-----------------------------------------------------------------------------
(* seekToTime on the video element of a scan (SpecSeek).  Times are milliseconds.
   A wait is the promise of one seekToTime call; the loop calls seekToTime for the
   next offset only after the wait of the previous one has ended. *)

MaxSeeks == 4

Abs(x) == IF x < 0 THEN 0 - x ELSE x

\* the offsets of the loop for an interval
SeekOffsets(interval) == [k \in 1..MaxSeeks |-> (k - 1) * interval]

NoWait == [state |-> "none", by |-> "none", signal |-> 0]

\* a new video element: currentTime 0, no seek in progress, no 'seeked' event queued,
\* no listener, no timer
InitVideo ==
    \E interval \in {50, 100, 500} :
        video = [pc |-> "loop",
                 offsets |-> SeekOffsets(interval),
                 next |-> 1,
                 currentTime |-> 0,
                 seeking |-> 0,
                 events |-> <<>>,
                 listeners |-> {},
                 timers |-> {},
                 waits |-> [k \in 1..MaxSeeks |-> NoWait]]

videoFrame == UNCHANGED <<svcVars, uiVars, scanVars, detCall, models, fnIn, fnOut>>

\* seekToTime(video, time): setTimeout, addEventListener('seeked', onSeeked); within
\* 0.1 s of currentTime both are taken back and the promise resolves; otherwise
\* video.currentTime = time starts a seek, which aborts one in progress
SeekToTime ==
    LET k == video.next
    IN  /\ k <= MaxSeeks
        /\ k > 1 => video.waits[k - 1].state = "ended"
        /\ IF Abs(video.currentTime - video.offsets[k]) < 100
           THEN video' = [video EXCEPT
                             !.next = k + 1,
                             !.waits[k] = [state |-> "ended", by |-> "shortcut",
                                           signal |-> 0]]
           ELSE video' = [video EXCEPT
                             !.next = k + 1,
                             !.timers = @ \cup {k},
                             !.listeners = @ \cup {k},
                             !.currentTime = video.offsets[k],
                             !.seeking = k,
                             !.waits[k] = [state |-> "waiting", by |-> "none",
                                           signal |-> 0]]
        /\ videoFrame

\* the browser finishes the seek in progress and queues its 'seeked' event
SeekCompletes ==
    /\ video.seeking # 0
    /\ video' = [video EXCEPT !.seeking = 0, !.events = Append(@, video.seeking)]
    /\ videoFrame

\* a queued 'seeked' event is dispatched: every registered onSeeked runs
\* clearTimeout(timeout), removeEventListener, resolve()
DispatchSeeked ==
    /\ video.events # <<>>
    /\ video' = [video EXCEPT
                    !.events = Tail(@),
                    !.timers = @ \ video.listeners,
                    !.listeners = {},
                    !.waits = [k \in 1..MaxSeeks |->
                                 IF k \in video.listeners /\ @[k].state = "waiting"
                                 THEN [state |-> "ended", by |-> "seeked",
                                       signal |-> Head(video.events)]
                                 ELSE @[k]]]
    /\ videoFrame

\* the 300 ms timer of a wait fires: resolve(), and nothing else
SeekTimeout(k) ==
    /\ k \in video.timers
    /\ video' = [video EXCEPT
                    !.timers = @ \ {k},
                    !.waits[k] = IF @.state = "waiting"
                                 THEN [state |-> "ended", by |-> "timeout", signal |-> 0]
                                 ELSE @]
    /\ videoFrame

InitSeek ==
    /\ InitNoService
    /\ InitUi
    /\ InitNoScan
    /\ detCall = NoDetectCall
    /\ models = NoModels
    /\ InitVideo
    /\ fnIn = NoValue
    /\ fnOut = NoValue

NextSeek ==
    \/ SeekToTime
    \/ SeekCompletes
    \/ DispatchSeeked
    \/ \E k \in 1..MaxSeeks : SeekTimeout(k)

SpecSeek == InitSeek /\ [][NextSeek]_vars

\* C30: a wait that a 'seeked' event ended was ended by the event of its own offset,
\* and every listener registered on the video belongs to a wait that has not ended
C30_OwnSignalOnly ==
    /\ \A k \in 1..MaxSeeks :
          video.waits[k].by = "seeked" => video.waits[k].signal = k
    /\ \A k \in video.listeners : video.waits[k].state = "waiting"

====
